---- MODULE Spec2Model ----
(***************************************************************************)
(* State-machine model of the dungeon crawler: the Dungeon environment,    *)
(* the Agent, the controllers and the episode runner.                      *)
(*                                                                         *)
(* Positions are pairs <<x, y>>; the grid is a function from cells to tile *)
(* names (the source indexes grid[y][x]).  The shared `random` module is   *)
(* one state variable, rng: random.seed sets it and every draw advances    *)
(* it, so that what a run draws is a function of the seed and of the       *)
(* number of draws made since.                                             *)
(***************************************************************************)
EXTENDS Integers, Sequences, FiniteSets, TLC

VARIABLES
    grid,            \* Dungeon.grid
    start_pos,       \* Dungeon.start_pos
    exit_pos,        \* Dungeon.exit_pos
    rng,             \* state of the shared random source
    agent,           \* the Agent's fields
    genome,          \* DecisionTreeController.genome
    prev_positions,  \* DecisionTreeController.prev_positions
    ctl,             \* which controller object exists, and how its construction ended
    ep,              \* run_episode's locals and its returned summary
    runs,            \* summaries and traces of the episodes already returned
    driver,          \* the calling code's counters: floors made, steps taken on the floor
    last             \* the call made by the last transition, with its inputs and result

dungeonVars == <<grid, start_pos, exit_pos>>
ctlVars == <<genome, prev_positions, ctl>>
vars == <<grid, start_pos, exit_pos, rng, agent, genome, prev_positions, ctl, ep, runs, driver, last>>

-----------------------------------------------------------------------------
(* Bounds of the exploration *)

MaxSeed == 1
MaxStepCalls == 8    \* Agent.step calls made on one floor by the free driver
MaxFloors == 2
MaxEpisodes == 2     \* run_episode calls made one after the other
MaxLayoutSeed == 120 \* seeds generate_random_layout is called with on its own

Seeds == 0..MaxSeed

\* Op applied to the value of v, which is computed once however often Op uses it
With(v, Op(_)) == CHOOSE y \in {Op(x) : x \in {v}} : TRUE

-----------------------------------------------------------------------------
(* config.py *)

GRID_WIDTH == 5
GRID_HEIGHT == 5

-----------------------------------------------------------------------------
(* The random module.  The library generator is modelled by a Lehmer        *)
(* generator x' = 75 x mod 65537.  State 0 is its fixed point: every draw   *)
(* from it is 0, which stands for the outcome sequences on which every      *)
(* random() call falls under the wall probability.                          *)

RngModulus == 65537
RngMultiplier == 75
SeedSpread == 28623

\* the seed argument None (seeds proper are non-negative)
None == -1

\* random.seed(seed)
random_seed(seed) == (seed * SeedSpread) % RngModulus

\* the generator state after one more draw; the draw's value is the new state
rng_next(r) == (r * RngMultiplier) % RngModulus

\* random.random() < 0.2, for the draw that left the generator in state r
random_lt_wall_prob(r) == 5 * r < RngModulus

\* the library's _randbelow(n), for the draw that left the generator in state r
randbelow(n, r) == r % n

-----------------------------------------------------------------------------
(* dungeon.py *)

EMPTY == "EMPTY"
WALL == "WALL"
EXIT == "EXIT"
MONSTER_MELEE == "MONSTER_MELEE"
MONSTER_MAGIC == "MONSTER_MAGIC"
HEALTH_POTION == "HEALTH_POTION"
MANA_POTION == "MANA_POTION"
COIN == "COIN"

TileType == {EMPTY, WALL, EXIT, MONSTER_MELEE, MONSTER_MAGIC, HEALTH_POTION, MANA_POTION, COIN}

Cells == (0..(GRID_WIDTH - 1)) \X (0..(GRID_HEIGHT - 1))

\* the cells in the order of "for y in range(height): for x in range(width)"
CellAt(i) == <<(i - 1) % GRID_WIDTH, (i - 1) \div GRID_WIDTH>>
NumCells == GRID_WIDTH * GRID_HEIGHT

in_bounds(x, y) == 0 <= x /\ x < GRID_WIDTH /\ 0 <= y /\ y < GRID_HEIGHT

get_tile(g, x, y) == g[<<x, y>>]

set_tile(g, x, y, tile_type) == [g EXCEPT ![<<x, y>>] = tile_type]

clear_tile(g, x, y) == [g EXCEPT ![<<x, y>>] = EMPTY]

\* the test as it would be without the look at the tile
WalkableInBounds(g, x, y) == in_bounds(x, y)

is_walkable(g, x, y) ==
    IF ~in_bounds(x, y) THEN FALSE
    ELSE get_tile(g, x, y) # WALL

\* the four neighbour offsets, in the order every scan of the source uses
Dirs4 == << <<-1, 0>>, <<1, 0>>, <<0, -1>>, <<0, 1>> >>
\* the same followed by the cell itself
Dirs5 == << <<-1, 0>>, <<1, 0>>, <<0, -1>>, <<0, 1>>, <<0, 0>> >>

\* Dungeon._create_basic_layout: the new grid (start and exit are the corners)
BasicStart == <<0, 0>>
BasicExit == <<GRID_WIDTH - 1, GRID_HEIGHT - 1>>

_create_basic_layout ==
    LET cleared == [c \in Cells |-> EMPTY]
        walled == IF GRID_WIDTH >= 3 /\ GRID_HEIGHT >= 3
                  THEN [cleared EXCEPT ![<<GRID_WIDTH \div 2, GRID_HEIGHT \div 2>>] = WALL]
                  ELSE cleared
    IN  [walled EXCEPT ![BasicExit] = EXIT]

\* the search as it would be with the diagonal neighbours among the directions
RECURSIVE BfsVisitDiagonal(_, _, _)
BfsVisitDiagonal(g, frontier, visited) ==
    IF frontier = {} THEN visited
    ELSE LET found == {n \in Cells :
                          /\ n \notin visited
                          /\ g[n] # WALL
                          /\ \E c \in frontier, dx \in {-1, 0, 1}, dy \in {-1, 0, 1} :
                                n = <<c[1] + dx, c[2] + dy>>}
         IN  BfsVisitDiagonal(g, found, visited \cup found)

\* the breadth-first search of _has_path_start_to_exit, one frontier at a time
RECURSIVE BfsVisit(_, _, _)
BfsVisit(g, frontier, visited) ==
    IF frontier = {} THEN visited
    ELSE LET found == {n \in Cells :
                          /\ n \notin visited
                          /\ g[n] # WALL
                          /\ \E c \in frontier, i \in 1..4 :
                                n = <<c[1] + Dirs4[i][1], c[2] + Dirs4[i][2]>>}
         IN  BfsVisit(g, found, visited \cup found)

_has_path_start_to_exit(g, s, e) == e \in BfsVisit(g, {s}, {s})

\* one pass of "if random.random() < 0.2: grid[y][x] = WALL" over the cells
\* from the i-th on; start and exit are skipped before any draw is made
RECURSIVE PlaceWalls(_, _, _)
PlaceWalls(i, g, r) ==
    IF i > NumCells THEN [grid |-> g, rng |-> r]
    ELSE IF CellAt(i) \in {BasicStart, BasicExit} THEN PlaceWalls(i + 1, g, r)
    ELSE LET r2 == rng_next(r)
         IN  PlaceWalls(i + 1,
                        IF random_lt_wall_prob(r2) THEN [g EXCEPT ![CellAt(i)] = WALL] ELSE g,
                        r2)

MaxAttempts == 100

\* One turn of the "while True" loop of generate_random_layout, entered with
\* `attempts` attempts already made: a pass over the cells, the start and exit
\* forced, and the test of the path and of the cap.
WallAttempt(attempts, r) ==
    With(PlaceWalls(1, [c \in Cells |-> EMPTY], r), LAMBDA pass :
    With([pass.grid EXCEPT ![BasicStart] = EMPTY, ![BasicExit] = EXIT], LAMBDA g :
        IF _has_path_start_to_exit(g, BasicStart, BasicExit)
        THEN [grid |-> g, rng |-> pass.rng, attempts |-> attempts + 1, state |-> "accepted"]
        ELSE IF attempts + 1 > MaxAttempts
        THEN [grid |-> _create_basic_layout, rng |-> pass.rng, attempts |-> attempts + 1,
              state |-> "fallback"]
        ELSE [grid |-> g, rng |-> pass.rng, attempts |-> attempts + 1, state |-> "looping"]))

\* the loop followed from the outcome w of its latest turn for at most n more
\* turns, or until it is left; the turns are split in halves, which keeps the
\* evaluation shallow
RECURSIVE WallLoop(_, _)
WallLoop(w, n) ==
    IF w.state # "looping" THEN w
    ELSE IF n = 1 THEN WallAttempt(w.attempts, w.rng)
    ELSE WallLoop(WallLoop(w, n \div 2), n - (n \div 2))

\* the loop from its first turn, the random source in state r; the cap ends
\* it on turn MaxAttempts + 1 at the latest
WallAttempts(r) == WallLoop(WallAttempt(0, r), MaxAttempts)

\* the list comprehension that builds empty_cells, from the i-th cell on
RECURSIVE EmptyCellsFrom(_, _)
EmptyCellsFrom(i, g) ==
    IF i > NumCells THEN << >>
    ELSE LET rest == EmptyCellsFrom(i + 1, g)
         IN  IF g[CellAt(i)] = EMPTY /\ CellAt(i) \notin {BasicStart, BasicExit}
             THEN <<CellAt(i)>> \o rest
             ELSE rest

\* random.shuffle(x): for i from the last index down to the second, swap
\* x[i] with x[j], j drawn below i (indices here are 1-based)
RECURSIVE Shuffle(_, _, _)
Shuffle(x, i, r) ==
    IF i < 2 THEN [list |-> x, rng |-> r]
    ELSE LET r2 == rng_next(r)
             j == randbelow(i, r2) + 1
         IN  Shuffle([x EXCEPT ![i] = x[j], ![j] = x[i]], i - 1, r2)

\* random.randint(a, b), for the draw that left the generator in state r
randint(a, b, r) == a + randbelow(b - a + 1, r)

Min(a, b) == IF a < b THEN a ELSE b
Max(a, b) == IF a > b THEN a ELSE b

\* the placement as it would be if the cell taken from the list stayed in it
RECURSIVE PlaceWithoutPop(_, _, _, _, _, _)
PlaceWithoutPop(g, cells, i, n, evenTile, oddTile) ==
    IF i >= n THEN [grid |-> g, cells |-> cells]
    ELSE LET c == cells[Len(cells)]
         IN  PlaceWithoutPop([g EXCEPT ![c] = IF i % 2 = 0 THEN evenTile ELSE oddTile],
                             cells, i + 1, n, evenTile, oddTile)

\* "for i in range(n): x, y = empty_cells.pop(); grid[y][x] = even/odd tile"
RECURSIVE PlaceEntities(_, _, _, _, _, _)
PlaceEntities(g, cells, i, n, evenTile, oddTile) ==
    IF i >= n THEN [grid |-> g, cells |-> cells]
    ELSE LET c == cells[Len(cells)]
         IN  PlaceEntities([g EXCEPT ![c] = IF i % 2 = 0 THEN evenTile ELSE oddTile],
                           SubSeq(cells, 1, Len(cells) - 1), i + 1, n, evenTile, oddTile)

max_monsters == 3
max_potions == 2
max_coins == 3

\* the monsters, potions and coins placed on the cells popped from the
\* shuffled list, the three counts drawn in this order
PlaceCoins(p, r3, num_monsters, num_potions) ==
    With(Min(randint(0, max_coins, r3), Len(p.cells)), LAMBDA num_coins :
        [grid |-> PlaceEntities(p.grid, p.cells, 0, num_coins, COIN, COIN).grid, rng |-> r3,
         num_monsters |-> num_monsters, num_potions |-> num_potions,
         num_coins |-> num_coins])

PlacePotions(m, r2, num_monsters) ==
    With(Min(randint(0, max_potions, r2), Len(m.cells)), LAMBDA num_potions :
        PlaceCoins(PlaceEntities(m.grid, m.cells, 0, num_potions, HEALTH_POTION, MANA_POTION),
                   rng_next(r2), num_monsters, num_potions))

\* the monsters as they would be placed with their number drawn from 0 on
PlaceMonstersFromZero(g, sh, r1) ==
    With(Min(randint(0, max_monsters, r1), Len(sh.list)), LAMBDA num_monsters :
        PlacePotions(PlaceEntities(g, sh.list, 0, num_monsters, MONSTER_MELEE, MONSTER_MAGIC),
                     rng_next(r1), num_monsters))

PlaceMonsters(g, sh, r1) ==
    With(Min(randint(1, max_monsters, r1), Len(sh.list)), LAMBDA num_monsters :
        PlacePotions(PlaceEntities(g, sh.list, 0, num_monsters, MONSTER_MELEE, MONSTER_MAGIC),
                     rng_next(r1), num_monsters))

\* the population of an accepted wall layout (the lines after the loop)
Populate(g, r) ==
    With(EmptyCellsFrom(1, g), LAMBDA empty_cells :
    With(Shuffle(empty_cells, Len(empty_cells), r), LAMBDA sh :
        PlaceMonsters(g, sh, rng_next(sh.rng))))

\* the WALL cells of the grid g
WallCells(g) == {c : c \in {d \in Cells : g[d] = WALL}}

\* what generate_random_layout would leave if it went on to place monsters,
\* potions and coins after falling back to the basic layout
AfterWallsNoReturn(w) ==
    With(WallCells(w.grid), LAMBDA walls :
    With(Populate([c \in Cells |-> w.grid[c]], w.rng), LAMBDA p :
        [grid |-> p.grid, rng |-> p.rng, attempts |-> w.attempts,
         accepted |-> (w.state = "accepted"),
         walls |-> walls, num_monsters |-> p.num_monsters,
         num_potions |-> p.num_potions, num_coins |-> p.num_coins]))

\* what generate_random_layout leaves, given the outcome w of its loop; walls
\* are the WALL cells the loop left, before anything else is placed
AfterWalls(w) ==
    With(WallCells(w.grid), LAMBDA walls :
        IF w.state # "accepted"
        THEN [grid |-> w.grid, rng |-> w.rng, attempts |-> w.attempts, accepted |-> FALSE,
              walls |-> walls, num_monsters |-> 0, num_potions |-> 0, num_coins |-> 0]
        ELSE With(Populate(w.grid, w.rng), LAMBDA p :
                 [grid |-> p.grid, rng |-> p.rng, attempts |-> w.attempts, accepted |-> TRUE,
                  walls |-> walls, num_monsters |-> p.num_monsters,
                  num_potions |-> p.num_potions, num_coins |-> p.num_coins]))

\* Dungeon.generate_random_layout(seed) called with the random source in state r
generate_random_layout(seed, r) ==
    AfterWalls(WallAttempts(IF seed # None THEN random_seed(seed) ELSE r))

-----------------------------------------------------------------------------
(* agent.py *)

UP == "UP"
DOWN == "DOWN"
LEFT == "LEFT"
RIGHT == "RIGHT"
STAY == "STAY"
MELEE == "MELEE"
MAGIC_BLAST == "MAGIC_BLAST"
DRINK_HEALTH == "DRINK_HEALTH"
DRINK_MANA == "DRINK_MANA"

Action == {UP, DOWN, LEFT, RIGHT, STAY, MELEE, MAGIC_BLAST, DRINK_HEALTH, DRINK_MANA}

max_health == 100
max_mana == 3
HealthPotionGain == 40
MonsterDamage == 10

\* Agent.__init__(start_pos)
NewAgent(s) ==
    [start_pos |-> s, x |-> s[1], y |-> s[2],
     health |-> max_health, mana |-> max_mana,
     health_potions |-> 0, mana_potions |-> 0,
     damage_taken |-> 0, monsters_killed |-> 0,
     potions_collected |-> 0, coins_collected |-> 0]

\* Agent.reset()
agent_reset(a) ==
    [a EXCEPT !.x = a.start_pos[1], !.y = a.start_pos[2],
              !.health = max_health, !.mana = max_mana,
              !.health_potions = 0, !.mana_potions = 0,
              !.damage_taken = 0, !.monsters_killed = 0,
              !.potions_collected = 0, !.coins_collected = 0]

\* Agent.pos
pos(a) == <<a.x, a.y>>

\* take_damage as it would be without its guard on the amount
TakeDamageUnguarded(a, amount) ==
    [a EXCEPT !.health = a.health - amount, !.damage_taken = a.damage_taken + amount]

\* Agent.take_damage(amount)
take_damage(a, amount) ==
    IF amount <= 0 THEN a
    ELSE [a EXCEPT !.health = a.health - amount, !.damage_taken = a.damage_taken + amount]

\* the indices of Dirs5 at which a scan from (x, y) finds a tile of `tiles`
ScanHits(g, x, y, tiles) ==
    {i \in 1..5 : /\ in_bounds(x + Dirs5[i][1], y + Dirs5[i][2])
                  /\ get_tile(g, x + Dirs5[i][1], y + Dirs5[i][2]) \in tiles}

FirstOf(S) == CHOOSE i \in S : \A j \in S : i <= j

\* the scan-and-break loop shared by melee_attack and magic_blast: the first
\* tile of the kind is cleared and counted
KillFirst(a, g, tile) ==
    LET hits == ScanHits(g, a.x, a.y, {tile})
    IN  IF hits = {} THEN [agent |-> a, grid |-> g]
        ELSE LET d == Dirs5[FirstOf(hits)]
             IN  [agent |-> [a EXCEPT !.monsters_killed = a.monsters_killed + 1],
                  grid |-> clear_tile(g, a.x + d[1], a.y + d[2])]

\* the sword as it would be if it struck the magic-weak monsters
MeleeStrikesMagic(a, g) == KillFirst(a, g, MONSTER_MAGIC)

\* Agent.melee_attack(dungeon)
melee_attack(a, g) == KillFirst(a, g, MONSTER_MELEE)

\* the blast as it would be if mana were spent only on a hit
MagicBlastFreeOnMiss(a, g) ==
    IF a.mana <= 0 \/ ScanHits(g, a.x, a.y, {MONSTER_MAGIC}) = {} THEN [agent |-> a, grid |-> g]
    ELSE KillFirst([a EXCEPT !.mana = a.mana - 1], g, MONSTER_MAGIC)

\* Agent.magic_blast(dungeon)
magic_blast(a, g) ==
    IF a.mana <= 0 THEN [agent |-> a, grid |-> g]
    ELSE KillFirst([a EXCEPT !.mana = a.mana - 1], g, MONSTER_MAGIC)

\* the health potion as it would be without the cap on the health gained
DrinkHealthUncapped(a) ==
    IF a.health_potions > 0 /\ a.health < max_health
    THEN [a EXCEPT !.health_potions = a.health_potions - 1,
                   !.health = a.health + HealthPotionGain]
    ELSE a

\* Agent.drink_health_potion()
drink_health_potion(a) ==
    IF a.health_potions > 0 /\ a.health < max_health
    THEN [a EXCEPT !.health_potions = a.health_potions - 1,
                   !.health = Min(max_health, a.health + HealthPotionGain)]
    ELSE a

\* Agent.drink_mana_potion()
drink_mana_potion(a) ==
    IF a.mana_potions > 0 /\ a.mana < max_mana
    THEN [a EXCEPT !.mana_potions = a.mana_potions - 1, !.mana = max_mana]
    ELSE a

\* the pickup as it would be if every tile under the agent were taken for an
\* item and cleared
PickupClearsAnyTile(a, g) ==
    LET tile == get_tile(g, a.x, a.y)
    IN  IF tile \in {HEALTH_POTION, MANA_POTION}
        THEN [agent |-> [a EXCEPT !.potions_collected = a.potions_collected + 1],
              grid |-> clear_tile(g, a.x, a.y)]
        ELSE IF tile # EMPTY
        THEN [agent |-> [a EXCEPT !.coins_collected = a.coins_collected + 1],
              grid |-> clear_tile(g, a.x, a.y)]
        ELSE [agent |-> a, grid |-> g]

\* Agent._pickup_tile(dungeon)
_pickup_tile(a, g) ==
    LET tile == get_tile(g, a.x, a.y)
    IN  IF tile = HEALTH_POTION
        THEN [agent |-> [a EXCEPT !.health_potions = a.health_potions + 1,
                                  !.potions_collected = a.potions_collected + 1],
              grid |-> clear_tile(g, a.x, a.y)]
        ELSE IF tile = MANA_POTION
        THEN [agent |-> [a EXCEPT !.mana_potions = a.mana_potions + 1,
                                  !.potions_collected = a.potions_collected + 1],
              grid |-> clear_tile(g, a.x, a.y)]
        ELSE IF tile = COIN
        THEN [agent |-> [a EXCEPT !.coins_collected = a.coins_collected + 1],
              grid |-> clear_tile(g, a.x, a.y)]
        ELSE [agent |-> a, grid |-> g]

\* the damage Dungeon.apply_monster_damage has summed when its loop ends
monster_damage(g, a) ==
    MonsterDamage * Cardinality(ScanHits(g, a.x, a.y, {MONSTER_MELEE, MONSTER_MAGIC}))

\* the damage as it would be summed if only MONSTER_MELEE tiles counted
ApplyMeleeDamageOnly(g, a) ==
    LET damage == MonsterDamage * Cardinality(ScanHits(g, a.x, a.y, {MONSTER_MELEE}))
    IN  IF damage > 0 THEN take_damage(a, damage) ELSE a

\* Dungeon.apply_monster_damage(agent): the agent afterwards
apply_monster_damage(g, a) ==
    LET damage == monster_damage(g, a)
    IN  IF damage > 0 THEN take_damage(a, damage) ELSE a

\* the (dx, dy) a movement action sets in Agent.step
MoveDelta(action) ==
    IF action = UP THEN <<0, -1>>
    ELSE IF action = DOWN THEN <<0, 1>>
    ELSE IF action = LEFT THEN <<-1, 0>>
    ELSE IF action = RIGHT THEN <<1, 0>>
    ELSE <<0, 0>>

\* the first if/elif chain of Agent.step: the attack and drink methods
ResolveAction(a, g, action) ==
    IF action = MELEE THEN melee_attack(a, g)
    ELSE IF action = MAGIC_BLAST THEN magic_blast(a, g)
    ELSE IF action = DRINK_HEALTH THEN [agent |-> drink_health_potion(a), grid |-> g]
    ELSE IF action = DRINK_MANA THEN [agent |-> drink_mana_potion(a), grid |-> g]
    ELSE [agent |-> a, grid |-> g]

\* the "Actually move" block of Agent.step
ApplyMove(a, g, action) ==
    IF action \in {UP, DOWN, LEFT, RIGHT, STAY}
    THEN LET new_x == a.x + MoveDelta(action)[1]
             new_y == a.y + MoveDelta(action)[2]
         IN  IF is_walkable(g, new_x, new_y) THEN [a EXCEPT !.x = new_x, !.y = new_y] ELSE a
    ELSE a

\* the step as it would be if the monsters were counted on the grid as it was
\* before the action
StepDamageOnOldGrid(a, g, action) ==
    With(ResolveAction(a, g, action), LAMBDA acted :
    With(ApplyMove(acted.agent, acted.grid, action), LAMBDA moved :
    With(_pickup_tile(moved, acted.grid), LAMBDA picked :
        [agent |-> apply_monster_damage(g, picked.agent), grid |-> picked.grid])))

\* Agent.step(action, dungeon): action, then pickup, then monster damage
step(a, g, action) ==
    With(ResolveAction(a, g, action), LAMBDA acted :
    With(ApplyMove(acted.agent, acted.grid, action), LAMBDA moved :
    With(_pickup_tile(moved, acted.grid), LAMBDA picked :
        [agent |-> apply_monster_damage(picked.grid, picked.agent), grid |-> picked.grid])))

\* Agent.at_exit(dungeon)
at_exit(a, e) == pos(a) = e

-----------------------------------------------------------------------------
(* controllers.py *)

\* random.choice(seq) with the random source in state r
random_choice(seq, r) ==
    LET r2 == rng_next(r)
    IN  [value |-> seq[randbelow(Len(seq), r2) + 1], rng |-> r2]

Moves == <<UP, DOWN, LEFT, RIGHT>>

\* the moves of the set S, in the order of Moves, from the i-th on: the lists
\* the controllers build by appending while they loop over the moves
RECURSIVE MovesIn(_, _)
MovesIn(i, S) ==
    IF i > Len(Moves) THEN << >>
    ELSE (IF Moves[i] \in S THEN <<Moves[i]>> ELSE << >>) \o MovesIn(i + 1, S)

MoveSet == {UP, DOWN, LEFT, RIGHT}

\* whether the cell a move leads to from the agent's cell is walkable
MoveWalkable(a, g, move) ==
    is_walkable(g, a.x + MoveDelta(move)[1], a.y + MoveDelta(move)[2])

\* RandomWalkerController.select_action
RandomWalkerSelect(a, g, r) ==
    With(MovesIn(1, {m \in MoveSet : MoveWalkable(a, g, m)}), LAMBDA valid_actions :
        IF valid_actions = << >> THEN [action |-> STAY, rng |-> r]
        ELSE With(random_choice(valid_actions, r),
                  LAMBDA c : [action |-> c.value, rng |-> c.rng]))

\* DecisionTreeController.ACTIONS (the name is a reserved word here)
DT_ACTIONS == <<UP, DOWN, LEFT, RIGHT, MELEE, MAGIC_BLAST, DRINK_HEALTH, DRINK_MANA>>

num_actions == Len(DT_ACTIONS)

num_genes == 9 * 4 * 2 * 2 * 2

\* DecisionTreeController.__init__(genome): the genome kept, or the error raised
ValueError == "ValueError"

\* the constructor as it would be if it cut a list that is too long down to
\* num_genes entries
NewControllerTruncating(g) ==
    IF Len(g) < num_genes
    THEN [error |-> ValueError, genome |-> << >>]
    ELSE [error |-> "none", genome |-> SubSeq(g, 1, num_genes)]

NewDecisionTreeController(g) ==
    IF Len(g) # num_genes
    THEN [error |-> ValueError, genome |-> << >>]
    ELSE [error |-> "none", genome |-> g]

\* reset_episode as it would be if it left the list as it is
ResetKeepingMemory(pp) == pp

\* DecisionTreeController.reset_episode, on the list prev_positions
reset_episode(pp) == << >>

_get_enemy_adj_type(a, g) ==
    LET has_melee == ScanHits(g, a.x, a.y, {MONSTER_MELEE}) # {}
        has_magic == ScanHits(g, a.x, a.y, {MONSTER_MAGIC}) # {}
    IN  IF has_melee /\ has_magic THEN 3
        ELSE IF has_melee THEN 1
        ELSE IF has_magic THEN 2
        ELSE 0

_has_adjacent_potion(a, g) ==
    IF ScanHits(g, a.x, a.y, {HEALTH_POTION, MANA_POTION}) # {} THEN 1 ELSE 0

sign(v) == IF v < 0 THEN -1 ELSE IF v > 0 THEN 1 ELSE 0

abs(v) == IF v < 0 THEN -v ELSE v

_exit_sector(a, e) ==
    LET dx == e[1] - a.x
        dy == e[2] - a.y
    IN  (sign(dx) + 1) * 3 + (sign(dy) + 1)

_front_blocked(a, g, e) ==
    LET dx == e[1] - a.x
        dy == e[2] - a.y
        front == IF abs(dx) >= abs(dy) /\ dx # 0
                 THEN (IF dx > 0 THEN <<1, 0>> ELSE <<-1, 0>>)
                 ELSE (IF dy > 0 THEN <<0, 1>> ELSE <<0, -1>>)
    IN  IF dx = 0 /\ dy = 0 THEN 0
        ELSE IF ~is_walkable(g, a.x + front[1], a.y + front[2]) THEN 1
        ELSE 0

\* the index as it would be with the enemy type given the weight of a flag
StateIndexFlagWeight(a, g, e) ==
    LET idx1 == _exit_sector(a, e) * 2 + _get_enemy_adj_type(a, g)
        idx2 == idx1 * 2 + _has_adjacent_potion(a, g)
        idx3 == idx2 * 2 + (IF a.mana > 0 THEN 1 ELSE 0)
    IN  idx3 * 2 + _front_blocked(a, g, e)

_state_index(a, g, e) ==
    LET exit_index == _exit_sector(a, e)
        enemy_type == _get_enemy_adj_type(a, g)
        potion_adj == _has_adjacent_potion(a, g)
        has_mana == IF a.mana > 0 THEN 1 ELSE 0
        front_blocked == _front_blocked(a, g, e)
        idx0 == exit_index
        idx1 == idx0 * 4 + enemy_type
        idx2 == idx1 * 2 + potion_adj
        idx3 == idx2 * 2 + has_mana
    IN  idx3 * 2 + front_blocked

_manhattan_to_exit(x, y, e) == abs(e[1] - x) + abs(e[2] - y)

_has_adjacent_monster_type(a, g, monster_type) ==
    ScanHits(g, a.x, a.y, {monster_type}) # {}

\* the distance to the exit of the cell a move leads to
MoveDist(a, e, move) ==
    _manhattan_to_exit(a.x + MoveDelta(move)[1], a.y + MoveDelta(move)[2], e)

MinOf(S) == CHOOSE d \in S : \A d2 \in S : d <= d2

\* _best_walkable_move as it would be without its is_walkable test
BestMoveIgnoringWalls(a, g, e, r) ==
    With(MinOf({MoveDist(a, e, m) : m \in MoveSet}), LAMBDA min_dist :
    With(random_choice(MovesIn(1, {m \in MoveSet : MoveDist(a, e, m) = min_dist}), r),
         LAMBDA c : [action |-> c.value, rng |-> c.rng]))

_best_walkable_move(a, g, e, r) ==
    With(MovesIn(1, {m \in MoveSet : MoveWalkable(a, g, m)}), LAMBDA candidates :
        IF candidates = << >> THEN [action |-> STAY, rng |-> r]
        ELSE With(MinOf({MoveDist(a, e, candidates[i]) : i \in 1..Len(candidates)}),
                  LAMBDA min_dist :
             With(random_choice(MovesIn(1, {m \in MoveSet : /\ MoveWalkable(a, g, m)
                                                            /\ MoveDist(a, e, m) = min_dist}),
                                r),
                  LAMBDA c : [action |-> c.value, rng |-> c.rng])))

\* _fix_blocked_move as it would be if it let every action through
FixNothing(a, g, e, action, r) == [action |-> action, rng |-> r]

_fix_blocked_move(a, g, e, action, r) ==
    IF action \notin {UP, DOWN, LEFT, RIGHT} THEN [action |-> action, rng |-> r]
    ELSE IF MoveWalkable(a, g, action) THEN [action |-> action, rng |-> r]
    ELSE _best_walkable_move(a, g, e, r)

\* _sanitize_action as it would be if it let every action through
SanitizeNothing(a, g, e, action, r) == [action |-> action, rng |-> r]

\* _sanitize_action as it would be without its test of the mana left
SanitizeWithoutManaTest(a, g, e, action, r) ==
    LET keep == [action |-> action, rng |-> r]
        move == _best_walkable_move(a, g, e, r)
    IN  IF action = DRINK_HEALTH
        THEN (IF a.health_potions <= 0 \/ a.health >= max_health THEN move ELSE keep)
        ELSE IF action = DRINK_MANA
        THEN (IF a.mana_potions <= 0 \/ a.mana >= max_mana THEN move ELSE keep)
        ELSE IF action = MAGIC_BLAST
        THEN (IF ~_has_adjacent_monster_type(a, g, MONSTER_MAGIC)
              THEN (IF _has_adjacent_monster_type(a, g, MONSTER_MELEE)
                    THEN [action |-> MELEE, rng |-> r]
                    ELSE move)
              ELSE keep)
        ELSE IF action = MELEE
        THEN (IF _has_adjacent_monster_type(a, g, MONSTER_MELEE) THEN keep
              ELSE IF _has_adjacent_monster_type(a, g, MONSTER_MAGIC)
              THEN (IF a.mana > 0 THEN [action |-> MAGIC_BLAST, rng |-> r]
                    ELSE IF a.mana_potions > 0 /\ a.mana < max_mana
                    THEN [action |-> DRINK_MANA, rng |-> r]
                    ELSE move)
              ELSE move)
        ELSE keep

_sanitize_action(a, g, e, action, r) ==
    LET keep == [action |-> action, rng |-> r]
        move == _best_walkable_move(a, g, e, r)
    IN  IF action = DRINK_HEALTH
        THEN (IF a.health_potions <= 0 \/ a.health >= max_health THEN move ELSE keep)
        ELSE IF action = DRINK_MANA
        THEN (IF a.mana_potions <= 0 \/ a.mana >= max_mana THEN move ELSE keep)
        ELSE IF action = MAGIC_BLAST
        THEN (IF a.mana <= 0
              THEN (IF a.mana_potions > 0 /\ a.mana < max_mana
                    THEN [action |-> DRINK_MANA, rng |-> r]
                    ELSE move)
              ELSE IF ~_has_adjacent_monster_type(a, g, MONSTER_MAGIC)
              THEN (IF _has_adjacent_monster_type(a, g, MONSTER_MELEE)
                    THEN [action |-> MELEE, rng |-> r]
                    ELSE move)
              ELSE keep)
        ELSE IF action = MELEE
        THEN (IF _has_adjacent_monster_type(a, g, MONSTER_MELEE) THEN keep
              ELSE IF _has_adjacent_monster_type(a, g, MONSTER_MAGIC)
              THEN (IF a.mana > 0 THEN [action |-> MAGIC_BLAST, rng |-> r]
                    ELSE IF a.mana_potions > 0 /\ a.mana < max_mana
                    THEN [action |-> DRINK_MANA, rng |-> r]
                    ELSE move)
              ELSE move)
        ELSE keep

_explore_move(a, g, avoid, r) ==
    With(MovesIn(1, {m \in MoveSet : m # avoid /\ MoveWalkable(a, g, m)}), LAMBDA candidates :
        IF candidates # << >>
        THEN With(random_choice(candidates, r),
                  LAMBDA c : [action |-> c.value, rng |-> c.rng])
        ELSE [action |-> avoid, rng |-> r])

_is_stuck_loop(pp) ==
    LET n == Len(pp)
    IN  IF n < 3 THEN FALSE
        ELSE IF pp[n] = pp[n - 2] THEN TRUE
        ELSE IF n >= 4 THEN pp[n - 3] = pp[n - 1] /\ pp[n - 2] = pp[n]
        ELSE FALSE

MaxPrevPositions == 8

IndexError == "IndexError"

\* self.ACTIONS[self.genome[idx]] as it would be without the modulo: a list
\* index below 0 counts from the end of the list, and one outside the list
\* raises
GeneActionNoModulo(gn, idx) ==
    LET k == gn[idx + 1]
    IN  IF 0 <= k /\ k < num_actions THEN DT_ACTIONS[k + 1]
        ELSE IF 0 - num_actions <= k /\ k < 0 THEN DT_ACTIONS[k + num_actions + 1]
        ELSE IndexError

\* self.ACTIONS[self.genome[idx] % self.num_actions()]; the remainder has
\* the sign of the divisor, so it is in 0..num_actions - 1 for every integer
gene_action(gn, idx) == DT_ACTIONS[(gn[idx + 1] % num_actions) + 1]

\* DecisionTreeController.select_action with genome gn and memory pp
select_action(gn, pp, a, g, e, r) ==
    With(IF Len(pp) + 1 > MaxPrevPositions THEN Tail(Append(pp, pos(a)))
         ELSE Append(pp, pos(a)), LAMBDA pp2 :
    With(_is_stuck_loop(pp2), LAMBDA stuck :
    With(_state_index(a, g, e), LAMBDA idx :
    With(gene_action(gn, idx), LAMBDA looked_up :
    With(_sanitize_action(a, g, e, looked_up, r), LAMBDA sane :
    With(_fix_blocked_move(a, g, e, sane.action, sane.rng), LAMBDA fixed :
    With(IF stuck /\ fixed.action \in {UP, DOWN, LEFT, RIGHT}
         THEN _explore_move(a, g, fixed.action, fixed.rng)
         ELSE fixed, LAMBDA chosen :
        [action |-> chosen.action, rng |-> chosen.rng, prev_positions |-> pp2,
         idx |-> idx, looked_up |-> looked_up, stuck |-> stuck])))))))

-----------------------------------------------------------------------------
(* training.py *)

MAX_STEPS_PER_EPISODE == 50

manhattan(a, b) == abs(a[1] - b[1]) + abs(a[2] - b[2])

\* the death and success tests made after a step of run_episode's loop, and
\* the timeout return after the last one; `n` is step + 1
\* the tests as they would be with the success test first
OutcomeSuccessFirst(a, e, n) ==
    IF at_exit(a, e) THEN "success"
    ELSE IF a.health <= 0 THEN "death"
    ELSE IF n >= MAX_STEPS_PER_EPISODE THEN "timeout"
    ELSE "continue"

\* the tests as they would be if the loop ran one turn past the budget
OutcomeOneTurnMore(a, e, n) ==
    IF a.health <= 0 THEN "death"
    ELSE IF at_exit(a, e) THEN "success"
    ELSE IF n > MAX_STEPS_PER_EPISODE THEN "timeout"
    ELSE "continue"

\* the tests as they would be without the success test
OutcomeWithoutExitTest(a, e, n) ==
    IF a.health <= 0 THEN "death"
    ELSE IF n >= MAX_STEPS_PER_EPISODE THEN "timeout"
    ELSE "continue"

EpisodeOutcome(a, e, n) ==
    IF a.health <= 0 THEN "death"
    ELSE IF at_exit(a, e) THEN "success"
    ELSE IF n >= MAX_STEPS_PER_EPISODE THEN "timeout"
    ELSE "continue"

\* the tuple run_episode returns for an outcome
\* the tuples as they would be with the distance of the last position
\* reported as the best one
ResultBestIsFinal(outcome, a, e, n, initial_dist, best_dist) ==
    IF outcome = "success"
    THEN <<TRUE, n, a.damage_taken, a.monsters_killed, a.potions_collected,
           initial_dist, 0, 0>>
    ELSE <<FALSE, IF outcome = "death" THEN n ELSE MAX_STEPS_PER_EPISODE, a.damage_taken,
           a.monsters_killed, a.potions_collected, initial_dist, manhattan(pos(a), e),
           manhattan(pos(a), e)>>

EpisodeResult(outcome, a, e, n, initial_dist, best_dist) ==
    IF outcome = "success"
    THEN <<TRUE, n, a.damage_taken, a.monsters_killed, a.potions_collected,
           initial_dist, 0, 0>>
    ELSE IF outcome = "death"
    THEN <<FALSE, n, a.damage_taken, a.monsters_killed, a.potions_collected,
           initial_dist, manhattan(pos(a), e), best_dist>>
    ELSE <<FALSE, MAX_STEPS_PER_EPISODE, a.damage_taken, a.monsters_killed,
           a.potions_collected, initial_dist, manhattan(pos(a), e), best_dist>>

-----------------------------------------------------------------------------
(* The controllers the episodes are run with *)

\* a * b modulo RngModulus, by parts that stay within the integers at hand
MulMod(a, b) ==
    ((((a * (b \div 256)) % RngModulus) * 256) + (a * (b % 256))) % RngModulus

\* RngMultiplier to the power n, modulo RngModulus
RECURSIVE PowMod(_)
PowMod(n) ==
    IF n = 0 THEN 1
    ELSE IF n % 2 = 1 THEN MulMod(RngMultiplier, PowMod(n - 1))
    ELSE With(PowMod(n \div 2), LAMBDA h : MulMod(h, h))

\* the random source after n more draws from state r
rng_after(n, r) == MulMod(r, PowMod(n))

\* DecisionTreeController.random_genome() with the random source in state r:
\* the i-th gene is the i-th draw of random.randint(0, num_actions - 1)
random_genome(r) ==
    [i \in 1..num_genes |-> randint(0, num_actions - 1, rng_after(i, r))]

\* the states of the random source the genomes of the exploration are drawn in
GenomeSeeds == <<3, 9, 6>>

\* a genome with the same genes modulo num_actions, a third of them below 0
\* and a third of them above num_actions - 1
OutOfRange(g) == [i \in 1..Len(g) |-> g[i] + num_actions * ((i % 3) - 1)]

\* the genomes of the accepted length
Genomes ==
    {random_genome(GenomeSeeds[1]), random_genome(GenomeSeeds[2]),
     OutOfRange(random_genome(GenomeSeeds[3]))}

\* what DecisionTreeController is constructed with: the genomes, and lists one
\* gene short, one gene long and twice as long
GenomeInputs ==
    Genomes \cup {SubSeq(random_genome(GenomeSeeds[1]), 1, num_genes - 1),
                  Append(random_genome(GenomeSeeds[1]), 0),
                  random_genome(GenomeSeeds[1]) \o random_genome(GenomeSeeds[1])}

-----------------------------------------------------------------------------
(* The state machine *)

NoController == [kind |-> "none"]
IdleEpisode ==
    [pc |-> "idle", seed |-> None, step |-> 0, initial_dist |-> 0, best_dist |-> 0,
     outcome |-> "none", result |-> << >>, trace |-> << >>]
NoCall == [op |-> "init", action |-> "none", seed |-> None, attempts |-> 0,
           accepted |-> FALSE, idx |-> 0, looked_up |-> "none", stuck |-> FALSE,
           error |-> "none", len |-> 0, walls |-> {}, num_monsters |-> 0,
           num_potions |-> 0, num_coins |-> 0, repeat |-> FALSE, amount |-> 0,
           changed |-> FALSE, mana_before |-> 0]

\* evaluate_controller not running: no episode index, count or total
NoEvaluation ==
    [pc |-> "idle", i |-> 0, n |-> 0, total |-> 0, seeds |-> << >>, rng_before |-> 0,
     memory_before |-> << >>]

\* float("-inf"), below every fitness an evaluation can return
NegInfinity == 0 - 1000000

\* run_ga not running
NoGA ==
    [pc |-> "idle", seed |-> None, gen |-> 0, i |-> 0, heap |-> << >>, population |-> << >>,
     fitnesses |-> << >>, new_population |-> << >>, best_overall_genome |-> 0,
     best_overall_fitness |-> NegInfinity, controller |-> 0, child |-> 0,
     parents |-> << >>, result |-> << >>, gen_bests |-> << >>,
     pop_size |-> 0, num_generations |-> 0, elite_fraction |-> <<0, 1>>,
     stubbed |-> FALSE, stub_fitness |-> 0]

\* a second run_episode call, not made: the state of its own controller,
\* Dungeon and Agent, and of its loop
NoOther ==
    [pc |-> "idle", seed |-> None, genome |-> << >>, prev_positions |-> << >>,
     grid |-> << >>, agent |-> << >>, step |-> 0, started |-> 0]

\* the states the random source is in when the process starts
EntropyStates == {random_seed(s) : s \in Seeds}

Init ==
    /\ grid = _create_basic_layout
    /\ start_pos = BasicStart
    /\ exit_pos = BasicExit
    /\ rng \in EntropyStates
    /\ agent = NewAgent(BasicStart)
    /\ genome = << >>
    /\ prev_positions = << >>
    /\ ctl = NoController
    /\ ep = IdleEpisode
    /\ runs = << >>
    /\ driver = [floors |-> 0, steps |-> 0, episodes |-> 0, eval |-> NoEvaluation,
                 scores |-> << >>, ga |-> NoGA, other |-> NoOther, turns |-> 0]
    /\ last = NoCall

\* generate_random_layout from each state a seeding leaves the random source
\* in: the layout is a function of that state alone, so it is computed once
LayoutFrom == [r0 \in EntropyStates |-> AfterWalls(WallAttempts(r0))]

\* the call as it would be if the seed given were not applied to the random
\* source
GenerateOnSourceAsIs(seed, r) ==
    IF r \in EntropyStates THEN LayoutFrom[r] ELSE generate_random_layout(None, r)

\* generate_random_layout(seed) on a new Dungeon, the random source in state r
GenerateOn(seed, r) ==
    With(IF seed # None THEN random_seed(seed) ELSE r, LAMBDA r0 :
        IF r0 \in EntropyStates THEN LayoutFrom[r0] ELSE generate_random_layout(None, r0))

\* make_floor (main.py): a new Dungeon, generate_random_layout, and a new
\* Agent at its start; called for the first floor and when the agent has
\* reached the exit of the floor it is on
MakeFloor(seed) ==
    /\ ep.pc = "idle"
    /\ driver.floors < MaxFloors
    /\ driver.floors = 0 \/ at_exit(agent, exit_pos)
    /\ \E gen \in {GenerateOn(seed, rng)} :
           /\ grid' = gen.grid
           /\ start_pos' = BasicStart
           /\ exit_pos' = BasicExit
           /\ rng' = gen.rng
           /\ agent' = NewAgent(BasicStart)
           /\ last' = [NoCall EXCEPT !.op = "generate", !.seed = seed,
                                     !.attempts = gen.attempts, !.accepted = gen.accepted,
                                     !.walls = gen.walls,
                                     !.num_monsters = gen.num_monsters,
                                     !.num_potions = gen.num_potions,
                                     !.num_coins = gen.num_coins]
    /\ driver' = [driver EXCEPT !.floors = driver.floors + 1, !.steps = 0]
    /\ UNCHANGED <<genome, prev_positions, ctl, ep, runs>>

\* run_game on the key 'r': make_floor again, wherever the agent is
RestartFloor(seed) ==
    /\ ep.pc = "idle"
    /\ driver.floors \in 1..(MaxFloors - 1)
    /\ \E gen \in {GenerateOn(seed, rng)} :
           /\ grid' = gen.grid
           /\ start_pos' = BasicStart
           /\ exit_pos' = BasicExit
           /\ rng' = gen.rng
           /\ agent' = NewAgent(BasicStart)
           /\ last' = [NoCall EXCEPT !.op = "generate", !.seed = seed,
                                     !.attempts = gen.attempts, !.accepted = gen.accepted,
                                     !.walls = gen.walls,
                                     !.num_monsters = gen.num_monsters,
                                     !.num_potions = gen.num_potions,
                                     !.num_coins = gen.num_coins,
                                     !.repeat = (last.op = "generate" /\ last.seed = seed)]
    /\ driver' = [driver EXCEPT !.floors = driver.floors + 1, !.steps = 0]
    /\ UNCHANGED <<genome, prev_positions, ctl, ep, runs>>

\* Dungeon.reset() and Agent.reset()
ResetFloor ==
    /\ ep.pc = "idle"
    /\ last.op # "reset"
    /\ grid' = _create_basic_layout
    /\ start_pos' = BasicStart
    /\ exit_pos' = BasicExit
    /\ agent' = agent_reset(agent)
    /\ driver' = [driver EXCEPT !.steps = 0]
    /\ last' = [NoCall EXCEPT !.op = "reset"]
    /\ UNCHANGED <<rng, genome, prev_positions, ctl, ep, runs>>

\* agent.step(action, dungeon), called by the driving code with any action
AgentStep(action) ==
    /\ ep.pc = "idle"
    /\ driver.steps < MaxStepCalls
    /\ \E s \in {step(agent, grid, action)} :
           /\ agent' = s.agent
           /\ grid' = s.grid
    /\ driver' = [driver EXCEPT !.steps = driver.steps + 1]
    /\ last' = [NoCall EXCEPT !.op = "step"]
    /\ UNCHANGED <<start_pos, exit_pos, rng, genome, prev_positions, ctl, ep, runs>>

Next ==
    \/ \E seed \in Seeds \cup {None} : MakeFloor(seed)
    \/ ResetFloor
    \/ \E action \in Action : AgentStep(action)

Spec == Init /\ [][Next]_vars

-----------------------------------------------------------------------------
(* The methods of Agent and Dungeon called one by one on a floor in play *)

MaxMethodCalls == 5    \* calls made on one floor, Agent.step among them
Amounts == {0 - 10, 0, 10, 110}    \* the amounts take_damage is called with
MethodSeeds == {1, 11, 25}         \* the seeds the floors in play are made with

\* the part the method calls share: the call is counted and recorded, with
\* whether it changed the agent or the grid, and nothing else is touched
MethodCall(op, amount) ==
    /\ ep.pc = "idle"
    /\ driver.floors >= 1
    /\ driver.steps < MaxMethodCalls
    /\ driver' = [driver EXCEPT !.steps = driver.steps + 1]
    /\ last' = [NoCall EXCEPT !.op = op, !.amount = amount,
                              !.changed = (agent' # agent \/ grid' # grid)]
    /\ UNCHANGED <<start_pos, exit_pos, rng, genome, prev_positions, ctl, ep, runs>>

\* agent.melee_attack(dungeon)
CallMeleeAttack ==
    /\ \E s \in {melee_attack(agent, grid)} : agent' = s.agent /\ grid' = s.grid
    /\ MethodCall("melee_attack", 0)

\* agent.magic_blast(dungeon)
CallMagicBlast ==
    /\ \E s \in {magic_blast(agent, grid)} : agent' = s.agent /\ grid' = s.grid
    /\ MethodCall("magic_blast", 0)

\* agent.drink_health_potion()
CallDrinkHealthPotion ==
    /\ agent' = drink_health_potion(agent)
    /\ grid' = grid
    /\ MethodCall("drink_health_potion", 0)

\* agent.drink_mana_potion()
CallDrinkManaPotion ==
    /\ agent' = drink_mana_potion(agent)
    /\ grid' = grid
    /\ MethodCall("drink_mana_potion", 0)

\* agent.take_damage(amount)
CallTakeDamage(amount) ==
    /\ agent' = take_damage(agent, amount)
    /\ grid' = grid
    /\ MethodCall("take_damage", amount)

\* dungeon.apply_monster_damage(agent); the amount recorded is the one
\* summed by its loop
CallApplyMonsterDamage ==
    /\ agent' = apply_monster_damage(grid, agent)
    /\ grid' = grid
    /\ MethodCall("apply_monster_damage", monster_damage(grid, agent))

\* agent.step(action, dungeon) on the floor in play
MethodStep(action) ==
    /\ driver.steps < MaxMethodCalls
    /\ AgentStep(action)

NextMethods ==
    \/ \E seed \in MethodSeeds : MakeFloor(seed)
    \/ \E action \in Action : MethodStep(action)
    \/ CallMeleeAttack
    \/ CallMagicBlast
    \/ CallDrinkHealthPotion
    \/ CallDrinkManaPotion
    \/ \E amount \in Amounts : CallTakeDamage(amount)
    \/ CallApplyMonsterDamage

SpecMethods == Init /\ [][NextMethods]_vars

-----------------------------------------------------------------------------
(* Episodes: controllers are constructed and handed to run_episode *)

\* DecisionTreeController(g): the controller replaces the one held, or the
\* constructor raises and the one held stays
ConstructDecisionTree(g) ==
    /\ ep.pc = "idle"
    /\ driver.eval.pc = "idle"
    /\ \E made \in {NewDecisionTreeController(g)} :
           IF made.error = ValueError
           THEN /\ last' = [NoCall EXCEPT !.op = "construct", !.error = ValueError,
                                          !.len = Len(g)]
                /\ UNCHANGED <<genome, prev_positions, ctl>>
           ELSE /\ genome' = made.genome
                /\ prev_positions' = << >>
                /\ ctl' = [kind |-> "dt"]
                /\ last' = [NoCall EXCEPT !.op = "construct", !.len = Len(g)]
    /\ UNCHANGED <<grid, start_pos, exit_pos, rng, agent, ep, runs, driver>>

\* RandomWalkerController()
ConstructRandomWalker ==
    /\ ep.pc = "idle"
    /\ driver.eval.pc = "idle"
    /\ ctl.kind # "walker"
    /\ genome' = << >>
    /\ prev_positions' = << >>
    /\ ctl' = [kind |-> "walker"]
    /\ last' = [NoCall EXCEPT !.op = "construct_walker"]
    /\ UNCHANGED <<grid, start_pos, exit_pos, rng, agent, ep, runs, driver>>

\* run_episode(controller, seed) up to its loop: the seeding, reset_episode,
\* the new Dungeon and its layout, the new Agent and the two distances
RunEpisodeHead(seed) ==
    /\ prev_positions' = IF ctl.kind = "dt" THEN reset_episode(prev_positions)
                         ELSE prev_positions
    /\ \E gen \in {GenerateOn(seed, IF seed # None THEN random_seed(seed) ELSE rng)} :
           /\ grid' = gen.grid
           /\ rng' = gen.rng
           /\ last' = [NoCall EXCEPT !.op = "start", !.seed = seed,
                                     !.attempts = gen.attempts, !.accepted = gen.accepted]
    /\ start_pos' = BasicStart
    /\ exit_pos' = BasicExit
    /\ agent' = NewAgent(BasicStart)
    /\ ep' = [IdleEpisode EXCEPT !.pc = "running", !.seed = seed,
                                 !.initial_dist = manhattan(BasicStart, BasicExit),
                                 !.best_dist = manhattan(BasicStart, BasicExit)]
    /\ UNCHANGED <<genome, ctl, runs>>

\* run_episode(controller, seed) called by the driving code
EpisodeStart(seed) ==
    /\ ep.pc = "idle"
    /\ driver.eval.pc = "idle"
    /\ ctl.kind # "none"
    /\ driver.episodes < MaxEpisodes
    /\ RunEpisodeHead(seed)
    /\ driver' = [driver EXCEPT !.episodes = driver.episodes + 1]

\* controller.select_action(agent, dungeon) of the controller held
ControllerSelect ==
    IF ctl.kind = "dt"
    THEN select_action(genome, prev_positions, agent, grid, exit_pos, rng)
    ELSE With(RandomWalkerSelect(agent, grid, rng), LAMBDA w :
             [action |-> w.action, rng |-> w.rng, prev_positions |-> prev_positions,
              idx |-> 0, looked_up |-> "none", stuck |-> FALSE])

\* the states of a generator of its own that the greedy controller breaks its
\* ties from: between them they pick each of two equally good moves
TieBreakSources == {1, 2}

\* what select_action of the controller held can return: one selection for
\* the controllers of controllers.py and for the one that always stays, one
\* for each way of breaking a tie for the greedy one
ControllerSelections ==
    IF ctl.kind = "stay"
    THEN {[action |-> STAY, rng |-> rng, prev_positions |-> prev_positions,
           idx |-> 0, looked_up |-> "none", stuck |-> FALSE]}
    ELSE IF ctl.kind = "greedy"
    THEN {[action |-> _best_walkable_move(agent, grid, exit_pos, t).action, rng |-> rng,
           prev_positions |-> prev_positions, idx |-> 0, looked_up |-> "none",
           stuck |-> FALSE] : t \in TieBreakSources}
    ELSE {ControllerSelect}

\* what one turn of run_episode's loop leaves, given the action selected and
\* the outcome of agent.step
AfterCycle(sel, s) ==
    \E n \in {ep.step + 1} :
    \E best \in {Min(ep.best_dist, manhattan(pos(s.agent), exit_pos))} :
    \E outcome \in {EpisodeOutcome(s.agent, exit_pos, n)} :
    \E trace \in {Append(ep.trace, [action |-> sel.action, pos |-> pos(s.agent),
                                    grid |-> s.grid])} :
        IF outcome = "continue"
        THEN /\ ep' = [ep EXCEPT !.step = n, !.best_dist = best, !.trace = trace]
             /\ runs' = runs
        ELSE \E result \in {EpisodeResult(outcome, s.agent, exit_pos, n,
                                          ep.initial_dist, best)} :
                 /\ ep' = [ep EXCEPT !.pc = "idle", !.step = n, !.best_dist = best,
                                     !.outcome = outcome, !.result = result,
                                     !.trace = << >>]
                 /\ runs' = Append(runs, [kind |-> ctl.kind, genome |-> genome,
                                          seed |-> ep.seed, outcome |-> outcome,
                                          result |-> result, trace |-> trace])

\* one turn of the loop of run_episode: select_action, agent.step, the
\* distance kept, then the death and success tests and the end of the range
RunEpisodeTurn ==
    /\ ep.pc = "running"
    /\ \E sel \in ControllerSelections :
       \E s \in {step(agent, grid, sel.action)} :
           /\ agent' = s.agent
           /\ grid' = s.grid
           /\ rng' = sel.rng
           /\ prev_positions' = sel.prev_positions
           /\ last' = [NoCall EXCEPT !.op = "cycle", !.action = sel.action, !.idx = sel.idx,
                                     !.looked_up = sel.looked_up, !.stuck = sel.stuck]
           /\ AfterCycle(sel, s)
    /\ UNCHANGED <<start_pos, exit_pos, genome, ctl>>

\* a turn of an episode the driving code started
EpisodeCycle ==
    /\ driver.eval.pc = "idle"
    /\ RunEpisodeTurn
    /\ UNCHANGED driver

NextEpisode ==
    \/ \E g \in GenomeInputs : ConstructDecisionTree(g)
    \/ ConstructRandomWalker
    \/ \E seed \in Seeds \cup {None} : EpisodeStart(seed)
    \/ EpisodeCycle

SpecEpisode == Init /\ [][NextEpisode]_vars

\* run_episode is a loop nothing interrupts: a turn that can be taken is taken
FairSpecEpisode == SpecEpisode /\ WF_vars(EpisodeCycle)

-----------------------------------------------------------------------------
(* evaluate_controller: episodes run one after the other and scored *)

MaxEvaluations == 2     \* evaluate_controller calls made one after the other
MaxEvalEpisodes == 2    \* the largest num_episodes it is called with

\* the seed evaluate_controller passes to run_episode for the episode `i`
EvaluateSeedNone(i) == None

EvaluateSeed(i) == i

\* the reward as it would be with the progress measured to the final
\* distance, not to the best one
EpisodeRewardFinalDist(result) ==
    (IF result[1] THEN 2000 - 20 * result[2] ELSE 0 - 300)
    + 80 * Max(0, result[6] - result[7]) + 100 * result[4] + 50 * result[5]
    - 3 * result[3]

\* ten times the reward evaluate_controller computes from the tuple
\* run_episode returned (ten times, for the 0.3 per point of damage)
EpisodeReward(result) ==
    LET reached_exit == result[1]
        steps == result[2]
        damage_taken == result[3]
        monsters_killed == result[4]
        potions_collected == result[5]
        initial_dist == result[6]
        best_dist == result[8]
        dist_improvement == Max(0, initial_dist - best_dist)
    IN  (IF reached_exit THEN 2000 - 20 * steps ELSE 0 - 300)
        + 80 * dist_improvement + 100 * monsters_killed + 50 * potions_collected
        - 3 * damage_taken

\* evaluate_controller(controller, num_episodes) is called on the controller
\* held: the total starts at zero
EvaluateCall(num_episodes) ==
    /\ ep.pc = "idle"
    /\ ctl.kind # "none"
    /\ driver.eval.pc = "idle"
    /\ Len(driver.scores) < MaxEvaluations
    /\ driver' = [driver EXCEPT !.eval = [NoEvaluation EXCEPT
                                             !.pc = "running", !.n = num_episodes,
                                             !.rng_before = rng,
                                             !.memory_before = prev_positions]]
    /\ last' = [NoCall EXCEPT !.op = "evaluate", !.len = num_episodes]
    /\ UNCHANGED <<grid, start_pos, exit_pos, rng, agent, genome, prev_positions, ctl, ep,
                   runs>>

\* the call of run_episode in the loop of evaluate_controller
EvaluateEpisode ==
    /\ driver.eval.pc = "running"
    /\ ep.pc = "idle"
    /\ RunEpisodeHead(EvaluateSeed(driver.eval.i))
    /\ UNCHANGED driver

\* what evaluate_controller does with the tuple run_episode returned: the
\* reward is added to the total, and after the last episode the score, the
\* total over num_episodes, is returned
AfterEvaluateEpisode(d, result, seed) ==
    LET ev == [d.eval EXCEPT !.total = d.eval.total + EpisodeReward(result),
                             !.seeds = Append(d.eval.seeds, seed),
                             !.i = d.eval.i + 1]
    IN  IF ev.i < ev.n THEN [d EXCEPT !.eval = ev]
        ELSE [d EXCEPT !.eval = NoEvaluation,
                       !.scores = Append(d.scores,
                                         [kind |-> ctl.kind, genome |-> genome, n |-> ev.n,
                                          score |-> <<ev.total, ev.n>>, seeds |-> ev.seeds,
                                          rng_before |-> ev.rng_before,
                                          memory_before |-> ev.memory_before])]

\* a turn of the episode evaluate_controller is running
EvaluateCycle ==
    /\ driver.eval.pc = "running"
    /\ RunEpisodeTurn
    /\ driver' = IF ep'.pc = "running" THEN driver
                 ELSE AfterEvaluateEpisode(driver, ep'.result, ep.seed)

NextEvaluate ==
    \/ \E g \in Genomes : ConstructDecisionTree(g)
    \/ ConstructRandomWalker
    \/ \E num_episodes \in 1..MaxEvalEpisodes : EvaluateCall(num_episodes)
    \/ EvaluateEpisode
    \/ EvaluateCycle

SpecEvaluate == Init /\ [][NextEvaluate]_vars

-----------------------------------------------------------------------------
(* ga.py: run_ga, with evaluate_controller run for every genome *)

POP_SIZE == 20           \* genomes in the population (100 in ga.py)
NUM_GENERATIONS == 2     \* generations of one run (60 in ga.py)
EPISODES_PER_EVAL == 2   \* episodes of one fitness evaluation (5 in ga.py)
TOURNAMENT_SIZE == 3
MUTATION_RATE == <<1, 10>>     \* 0.1, as a fraction
ELITE_FRACTION == <<1, 10>>    \* 0.1, as a fraction
GASeeds == {0, 1}        \* the seeds run_ga is called with

\* random.random() < p for the fraction p, for the draw that left the
\* generator in state r: the draw is r / RngModulus
random_lt(p, r) == p[2] * r < p[1] * RngModulus

\* Lists are objects: a heap is the sequence of the lists allocated so far,
\* and a list is known by its index in it.  lst[:] and list(lst): a new list
\* with the entries of the list `id`
list_copy(h, id) == [heap |-> Append(h, h[id]), id |-> Len(h) + 1]

\* the lists `ids` given up: their entries are no longer kept
Freed(h, ids) == [k \in 1..Len(h) |-> IF k \in ids THEN << >> ELSE h[k]] \o << >>

\* [make_random_genome() for _ in range(POP_SIZE)] with the random source in
\* state r: the k-th genome takes the k-th num_genes draws
InitialPopulation(pop_size, r) ==
    [heap |-> [k \in 1..pop_size |-> random_genome(rng_after(num_genes * (k - 1), r)) \o << >>]
              \o << >>,
     population |-> [k \in 1..pop_size |-> k] \o << >>,
     rng |-> rng_after(num_genes * pop_size, r)]

\* the loop of tournament_select: k draws to go, best_idx is -1 for None
RECURSIVE TournamentLoop(_, _, _, _)
TournamentLoop(k, best_idx, fitnesses, r) ==
    IF k = 0 THEN [idx |-> best_idx, rng |-> r]
    ELSE LET r2 == rng_next(r)
             idx == randbelow(Len(fitnesses), r2)
         IN  TournamentLoop(k - 1,
                            IF best_idx = 0 - 1 \/ fitnesses[idx + 1] > fitnesses[best_idx + 1]
                            THEN idx ELSE best_idx,
                            fitnesses, r2)

\* tournament_select(pop, fitnesses): the list returned is the one in pop
tournament_select(pop, fitnesses, r) ==
    With(TournamentLoop(TOURNAMENT_SIZE, 0 - 1, fitnesses, r), LAMBDA t :
        [id |-> pop[t.idx + 1], rng |-> t.rng])

\* crossover as it would be if it wrote the child into parent1 and returned it
CrossoverInPlace(h, parent1, parent2, r) ==
    LET n == Min(Len(h[parent1]), Len(h[parent2]))
        child == [i \in 1..n |-> IF random_lt(<<1, 2>>, rng_after(i, r))
                                 THEN h[parent1][i] ELSE h[parent2][i]] \o << >>
    IN  [heap |-> [h EXCEPT ![parent1] = child], id |-> parent1, rng |-> rng_after(n, r)]

\* crossover(parent1, parent2): a new list, gene by gene from one parent or
\* the other, one draw for each pair of genes
crossover(h, parent1, parent2, r) ==
    LET n == Min(Len(h[parent1]), Len(h[parent2]))
        child == [i \in 1..n |-> IF random_lt(<<1, 2>>, rng_after(i, r))
                                 THEN h[parent1][i] ELSE h[parent2][i]] \o << >>
    IN  [heap |-> Append(h, child), id |-> Len(h) + 1, rng |-> rng_after(n, r)]

\* the loop of mutate as it would be with random.randint(0, num_actions)
RECURSIVE MutateLoopOffByOne(_, _, _, _)
MutateLoopOffByOne(g, lo, hi, r) ==
    IF lo > hi THEN [genes |-> << >>, rng |-> r]
    ELSE IF lo = hi
    THEN LET r1 == rng_next(r)
         IN  IF random_lt(MUTATION_RATE, r1)
             THEN [genes |-> <<randint(0, num_actions, rng_next(r1))>>, rng |-> rng_next(r1)]
             ELSE [genes |-> <<g[lo]>>, rng |-> r1]
    ELSE With(MutateLoopOffByOne(g, lo, (lo + hi) \div 2, r), LAMBDA left :
         With(MutateLoopOffByOne(g, (lo + hi) \div 2 + 1, hi, left.rng), LAMBDA right :
             [genes |-> left.genes \o right.genes, rng |-> right.rng]))

\* the loop of mutate over the genes lo..hi of g, the lower half first: one
\* draw for each gene, and one more for the new value of a gene that mutates
RECURSIVE MutateLoop(_, _, _, _)
MutateLoop(g, lo, hi, r) ==
    IF lo > hi THEN [genes |-> << >>, rng |-> r]
    ELSE IF lo = hi
    THEN LET r1 == rng_next(r)
         IN  IF random_lt(MUTATION_RATE, r1)
             THEN [genes |-> <<randint(0, num_actions - 1, rng_next(r1))>>, rng |-> rng_next(r1)]
             ELSE [genes |-> <<g[lo]>>, rng |-> r1]
    ELSE With(MutateLoop(g, lo, (lo + hi) \div 2, r), LAMBDA left :
         With(MutateLoop(g, (lo + hi) \div 2 + 1, hi, left.rng), LAMBDA right :
             [genes |-> left.genes \o right.genes, rng |-> right.rng]))

\* mutate(genome): the list `id` is changed in place and returned
mutate(h, id, r) ==
    With(MutateLoop(h[id], 1, Len(h[id]), r), LAMBDA m :
        [heap |-> [h EXCEPT ![id] = m.genes], id |-> id, rng |-> m.rng])

\* max(1, int(ELITE_FRACTION * POP_SIZE))
num_elites(pop_size, elite_fraction) ==
    Max(1, (elite_fraction[1] * pop_size) \div elite_fraction[2])

\* the index as it would be if max returned the last of the largest
GenBestIdxLast(fitnesses) ==
    CHOOSE i \in 0..(Len(fitnesses) - 1) :
        /\ \A j \in 0..(Len(fitnesses) - 1) : fitnesses[j + 1] <= fitnesses[i + 1]
        /\ \A j \in (i + 1)..(Len(fitnesses) - 1) : fitnesses[j + 1] < fitnesses[i + 1]

\* max(range(POP_SIZE), key=...): the first index of the largest fitness
gen_best_idx(fitnesses) ==
    CHOOSE i \in 0..(Len(fitnesses) - 1) :
        /\ \A j \in 0..(Len(fitnesses) - 1) : fitnesses[j + 1] <= fitnesses[i + 1]
        /\ \A j \in 0..(i - 1) : fitnesses[j + 1] < fitnesses[i + 1]

\* the sort as it would be if equal fitnesses came out in reverse order
SortedIndicesTiesReversed(fitnesses) ==
    LET n == Len(fitnesses)
        before(j, i) == fitnesses[j + 1] > fitnesses[i + 1]
                        \/ (fitnesses[j + 1] = fitnesses[i + 1] /\ j > i)
    IN  [k \in 1..n |-> CHOOSE i \in 0..(n - 1) :
                            Cardinality({j \in 0..(n - 1) : before(j, i)}) = k - 1] \o << >>

\* sorted(range(POP_SIZE), key=..., reverse=True): by fitness, the largest
\* first; the sort is stable, so equal fitnesses stay in index order
sorted_indices(fitnesses) ==
    LET n == Len(fitnesses)
        before(j, i) == fitnesses[j + 1] > fitnesses[i + 1]
                        \/ (fitnesses[j + 1] = fitnesses[i + 1] /\ j < i)
    IN  [k \in 1..n |-> CHOOSE i \in 0..(n - 1) :
                            Cardinality({j \in 0..(n - 1) : before(j, i)}) = k - 1] \o << >>

\* the new population as it would start with no elite copied into it
CopyNoElites(n, h, population, sorted, k, new_population) ==
    [heap |-> h, new_population |-> new_population]

\* [population[i][:] for i in sorted_indices[:n]], from the k-th on
RECURSIVE CopyElites(_, _, _, _, _, _)
CopyElites(n, h, population, sorted, k, new_population) ==
    IF k > Min(n, Len(sorted)) THEN [heap |-> h, new_population |-> new_population]
    ELSE With(list_copy(h, population[sorted[k] + 1]), LAMBDA c :
             CopyElites(n, c.heap, population, sorted, k + 1, Append(new_population, c.id)))

\* the update of the all-time best as it would be with >= for >
TrackBestOnTies(g, gen_best_fitness, gen_best_genome) ==
    IF gen_best_fitness >= g.best_overall_fitness
    THEN With(list_copy(g.heap, gen_best_genome), LAMBDA c :
             [g EXCEPT !.heap = c.heap, !.best_overall_fitness = gen_best_fitness,
                       !.best_overall_genome = c.id])
    ELSE g

\* "if gen_best_fitness > best_overall_fitness": the all-time best of the
\* run g is replaced by a copy of the generation's best
TrackBest(g, gen_best_fitness, gen_best_genome) ==
    IF gen_best_fitness > g.best_overall_fitness
    THEN With(list_copy(g.heap, gen_best_genome), LAMBDA c :
             [g EXCEPT !.heap = c.heap, !.best_overall_fitness = gen_best_fitness,
                       !.best_overall_genome = c.id])
    ELSE g

\* run_ga(seed) up to its loop: the seeding, the population, the copy of its
\* first genome kept as the all-time best
GAStart(seed) ==
    /\ driver.ga.pc = "idle"
    /\ ep.pc = "idle"
    /\ driver.eval.pc = "idle"
    /\ \E p \in {InitialPopulation(POP_SIZE, random_seed(seed))} :
       \E c \in {list_copy(p.heap, p.population[1])} :
           /\ rng' = p.rng
           /\ driver' = [driver EXCEPT !.ga = [NoGA EXCEPT
                             !.pc = "evaluate", !.seed = seed, !.heap = c.heap,
                             !.population = p.population, !.best_overall_genome = c.id,
                             !.pop_size = POP_SIZE, !.num_generations = NUM_GENERATIONS,
                             !.elite_fraction = ELITE_FRACTION],
                                !.scores = << >>]
    /\ last' = [NoCall EXCEPT !.op = "run_ga", !.seed = seed]
    /\ UNCHANGED <<grid, start_pos, exit_pos, agent, genome, prev_positions, ctl, ep, runs>>

\* evaluate_genome(g) for the next genome of the population, up to the loop
\* of evaluate_controller: the controller is constructed on a copy of g
GAEvaluateGenome ==
    /\ driver.ga.pc = "evaluate"
    /\ ~driver.ga.stubbed
    /\ driver.ga.i < driver.ga.pop_size
    /\ driver.eval.pc = "idle"
    /\ driver.scores = << >>
    /\ \E c \in {list_copy(driver.ga.heap, driver.ga.population[driver.ga.i + 1])} :
       \E made \in {NewDecisionTreeController(c.heap[c.id])} :
           /\ made.error = "none"
           /\ genome' = made.genome
           /\ driver' = [driver EXCEPT
                             !.ga = [driver.ga EXCEPT !.heap = c.heap, !.controller = c.id],
                             !.eval = [NoEvaluation EXCEPT
                                          !.pc = "running", !.n = EPISODES_PER_EVAL,
                                          !.rng_before = rng,
                                          !.memory_before = << >>]]
    /\ prev_positions' = << >>
    /\ ctl' = [kind |-> "dt"]
    /\ runs' = << >>
    /\ last' = [NoCall EXCEPT !.op = "evaluate_genome", !.len = EPISODES_PER_EVAL]
    /\ UNCHANGED <<grid, start_pos, exit_pos, rng, agent, ep>>

\* the fitness evaluate_genome returned joins the list; the controller and
\* its genome are given up
GAFitness ==
    /\ driver.ga.pc = "evaluate"
    /\ driver.eval.pc = "idle"
    /\ Len(driver.scores) = 1
    /\ driver' = [driver EXCEPT
                      !.ga = [driver.ga EXCEPT
                                 !.fitnesses = Append(driver.ga.fitnesses,
                                                      driver.scores[1].score[1]),
                                 !.i = driver.ga.i + 1,
                                 !.heap = Freed(driver.ga.heap, {driver.ga.controller}),
                                 !.controller = 0,
                                 !.pc = IF driver.ga.i + 1 < driver.ga.pop_size THEN "evaluate"
                                        ELSE "select"],
                      !.scores = << >>]
    /\ last' = [NoCall EXCEPT !.op = "fitness"]
    /\ UNCHANGED <<grid, start_pos, exit_pos, rng, agent, genome, prev_positions, ctl, ep,
                   runs>>

\* the generation's best, the all-time best, the sort and the elites copied
\* into the new population
GASelect ==
    /\ driver.ga.pc = "select"
    /\ \E best_idx \in {gen_best_idx(driver.ga.fitnesses)} :
       \E tracked \in {TrackBest(driver.ga, driver.ga.fitnesses[best_idx + 1],
                                 driver.ga.population[best_idx + 1])} :
       \E e \in {CopyElites(num_elites(driver.ga.pop_size, driver.ga.elite_fraction),
                            tracked.heap, tracked.population,
                            sorted_indices(tracked.fitnesses), 1, << >>)} :
           driver' = [driver EXCEPT !.ga = [tracked EXCEPT
                          !.heap = e.heap, !.new_population = e.new_population,
                          !.gen_bests = Append(driver.ga.gen_bests,
                                               driver.ga.fitnesses[best_idx + 1]),
                          !.pc = IF Len(e.new_population) < driver.ga.pop_size THEN "breed"
                                 ELSE "swap"]]
    /\ last' = [NoCall EXCEPT !.op = "select"]
    /\ UNCHANGED <<grid, start_pos, exit_pos, rng, agent, genome, prev_positions, ctl, ep,
                   runs>>

\* one turn of the while loop: two tournaments, crossover, mutate, append
GAChild ==
    /\ driver.ga.pc = "breed"
    /\ \E parent1 \in {tournament_select(driver.ga.population, driver.ga.fitnesses, rng)} :
       \E parent2 \in {tournament_select(driver.ga.population, driver.ga.fitnesses,
                                         parent1.rng)} :
       \E crossed \in {crossover(driver.ga.heap, parent1.id, parent2.id, parent2.rng)} :
       \E child \in {mutate(crossed.heap, crossed.id, crossed.rng)} :
           /\ rng' = child.rng
           /\ driver' = [driver EXCEPT !.ga = [driver.ga EXCEPT
                             !.heap = child.heap,
                             !.new_population = Append(driver.ga.new_population, child.id),
                             !.child = child.id,
                             !.parents = <<parent1.id, parent2.id>>,
                             !.pc = IF Len(driver.ga.new_population) + 1 < driver.ga.pop_size
                                    THEN "breed" ELSE "swap"]]
    /\ last' = [NoCall EXCEPT !.op = "child"]
    /\ UNCHANGED <<grid, start_pos, exit_pos, agent, genome, prev_positions, ctl, ep, runs>>

\* population = new_population, the old lists given up; after the last
\* generation run_ga returns the all-time best genome and its fitness
GANextGeneration ==
    /\ driver.ga.pc = "swap"
    /\ driver' = [driver EXCEPT !.ga = [driver.ga EXCEPT
                      !.heap = Freed(driver.ga.heap,
                                     {driver.ga.population[k] : k \in 1..Len(driver.ga.population)}),
                      !.population = driver.ga.new_population,
                      !.new_population = << >>,
                      !.fitnesses = << >>,
                      !.i = 0,
                      !.gen = driver.ga.gen + 1,
                      !.child = 0,
                      !.parents = << >>,
                      !.pc = IF driver.ga.gen + 1 < driver.ga.num_generations THEN "evaluate"
                             ELSE "done",
                      !.result = IF driver.ga.gen + 1 < driver.ga.num_generations THEN << >>
                                 ELSE <<driver.ga.heap[driver.ga.best_overall_genome],
                                        <<driver.ga.best_overall_fitness, EPISODES_PER_EVAL>> >>]]
    /\ last' = [NoCall EXCEPT !.op = "generation"]
    /\ UNCHANGED <<grid, start_pos, exit_pos, rng, agent, genome, prev_positions, ctl, ep,
                   runs>>

NextGA ==
    \/ \E seed \in GASeeds : GAStart(seed)
    \/ GAEvaluateGenome
    \/ EvaluateEpisode
    \/ EvaluateCycle
    \/ GAFitness
    \/ GASelect
    \/ GAChild
    \/ GANextGeneration

SpecGA == Init /\ [][NextGA]_vars

-----------------------------------------------------------------------------
(* run_ga with the constants of ga.py set to other values before the call and
   evaluate_genome replaced by a function that returns one fitness for every
   genome.  The constants are module globals read when run_ga runs, so the
   run holds the values it reads: pop_size, num_generations, elite_fraction *)

\* the values POP_SIZE, NUM_GENERATIONS and ELITE_FRACTION are set to
PatchedConstants == [POP_SIZE |-> 4, NUM_GENERATIONS |-> 1, ELITE_FRACTION |-> <<1, 4>>]

\* the fitnesses the replaced evaluate_genome returns, as the numerators
\* over EPISODES_PER_EVAL that a fitness is held as
StubFitnesses == {0 - 35, 0, 507}

\* the seeds the patched run_ga is called with
PatchedSeeds == 0..5

\* run_ga(seed) up to its loop, with the constants patched and the fitness
\* function replaced by one that returns f
PatchedGAStart(seed, f) ==
    /\ driver.ga.pc = "idle"
    /\ ep.pc = "idle"
    /\ driver.eval.pc = "idle"
    /\ \E p \in {InitialPopulation(PatchedConstants.POP_SIZE, random_seed(seed))} :
       \E c \in {list_copy(p.heap, p.population[1])} :
           /\ rng' = p.rng
           /\ driver' = [driver EXCEPT !.ga = [NoGA EXCEPT
                             !.pc = "evaluate", !.seed = seed, !.heap = c.heap,
                             !.population = p.population, !.best_overall_genome = c.id,
                             !.pop_size = PatchedConstants.POP_SIZE,
                             !.num_generations = PatchedConstants.NUM_GENERATIONS,
                             !.elite_fraction = PatchedConstants.ELITE_FRACTION,
                             !.stubbed = TRUE, !.stub_fitness = f],
                                !.scores = << >>]
    /\ last' = [NoCall EXCEPT !.op = "run_ga", !.seed = seed]
    /\ UNCHANGED <<grid, start_pos, exit_pos, agent, genome, prev_positions, ctl, ep, runs>>

\* the replaced evaluate_genome(g) for the next genome of the population: its
\* fitness joins the list
GAStubFitness ==
    /\ driver.ga.pc = "evaluate"
    /\ driver.ga.stubbed
    /\ driver.ga.i < driver.ga.pop_size
    /\ driver' = [driver EXCEPT
                      !.ga = [driver.ga EXCEPT
                                 !.fitnesses = Append(driver.ga.fitnesses,
                                                      driver.ga.stub_fitness),
                                 !.i = driver.ga.i + 1,
                                 !.pc = IF driver.ga.i + 1 < driver.ga.pop_size
                                        THEN "evaluate" ELSE "select"]]
    /\ last' = [NoCall EXCEPT !.op = "fitness"]
    /\ UNCHANGED <<grid, start_pos, exit_pos, rng, agent, genome, prev_positions, ctl, ep,
                   runs>>

\* the steps of the patched run_ga once it is called
PatchedGAStep ==
    \/ GAStubFitness
    \/ GASelect
    \/ GAChild
    \/ GANextGeneration

NextPatchedGA ==
    \/ \E seed \in PatchedSeeds : \E f \in StubFitnesses : PatchedGAStart(seed, f)
    \/ PatchedGAStep

SpecPatchedGA == Init /\ [][NextPatchedGA]_vars

\* run_ga is a loop nothing interrupts: a step that can be taken is taken
FairSpecPatchedGA == SpecPatchedGA /\ WF_vars(PatchedGAStep)

-----------------------------------------------------------------------------
(* Layouts on their own: generate_random_layout called with each seed *)

NextLayouts ==
    \/ \E seed \in 0..MaxLayoutSeed : MakeFloor(seed)
    \/ \E seed \in 0..MaxLayoutSeed : RestartFloor(seed)

SpecLayouts == Init /\ [][NextLayouts]_vars

-----------------------------------------------------------------------------
(* Two episodes interleaved: a second run_episode call, with a controller,
   a Dungeon and an Agent of its own, takes its steps between the turns of
   the first. The module-level generator of `random` is the one object both
   calls reach. *)

MaxOtherEpisodes == 1   \* second calls made
MaxOtherTurns == 2      \* turns the second call's loop is followed for

\* the genomes and the seed of the interleaved calls
InterleavedGenomes == {random_genome(GenomeSeeds[1]), random_genome(GenomeSeeds[2])}
InterleavedSeeds == {1}

\* the second call, run_episode(DecisionTreeController(g), seed), up to its
\* loop, made while the first call is in its loop: it seeds the generator and
\* draws its layout from it
OtherEpisodeStart(g, seed) ==
    /\ ep.pc = "running"
    /\ driver.eval.pc = "idle" /\ driver.ga.pc = "idle"
    /\ driver.other.pc = "idle"
    /\ driver.other.started < MaxOtherEpisodes
    /\ \E made \in {NewDecisionTreeController(g)} :
       \E gen \in {GenerateOn(seed, IF seed # None THEN random_seed(seed) ELSE rng)} :
           /\ made.error # ValueError
           /\ rng' = gen.rng
           /\ driver' = [driver EXCEPT !.other =
                             [pc |-> "running", seed |-> seed, genome |-> made.genome,
                              prev_positions |-> reset_episode(<< >>),
                              grid |-> gen.grid, agent |-> NewAgent(BasicStart),
                              step |-> 0, started |-> driver.other.started + 1]]
           /\ last' = [NoCall EXCEPT !.op = "other_start", !.seed = seed,
                                     !.attempts = gen.attempts, !.accepted = gen.accepted]
    /\ UNCHANGED <<grid, start_pos, exit_pos, agent, genome, prev_positions, ctl, ep, runs>>

\* one turn of the second call's loop: its controller draws from the
\* generator, its agent steps on its own grid
OtherEpisodeTurn ==
    /\ driver.other.pc = "running"
    /\ ep.pc = "running"
    /\ driver.other.step < MaxOtherTurns
    /\ \E o \in {driver.other} :
       \E sel \in {select_action(o.genome, o.prev_positions, o.agent, o.grid,
                                 BasicExit, rng)} :
       \E s \in {step(o.agent, o.grid, sel.action)} :
       \E outcome \in {EpisodeOutcome(s.agent, BasicExit, o.step + 1)} :
           /\ rng' = sel.rng
           /\ driver' = [driver EXCEPT !.other =
                             [o EXCEPT !.pc = IF outcome = "continue" THEN "running"
                                              ELSE "idle",
                                       !.prev_positions = sel.prev_positions,
                                       !.agent = s.agent, !.grid = s.grid,
                                       !.step = o.step + 1]]
           /\ last' = [NoCall EXCEPT !.op = "other_cycle", !.action = sel.action,
                                     !.idx = sel.idx, !.looked_up = sel.looked_up,
                                     !.stuck = sel.stuck]
    /\ UNCHANGED <<grid, start_pos, exit_pos, agent, genome, prev_positions, ctl, ep, runs>>

NextInterleaved ==
    \/ \E g \in InterleavedGenomes : ConstructDecisionTree(g)
    \/ \E seed \in InterleavedSeeds : EpisodeStart(seed)
    \/ EpisodeCycle
    \/ \E g \in InterleavedGenomes : \E seed \in InterleavedSeeds : OtherEpisodeStart(g, seed)
    \/ OtherEpisodeTurn

SpecInterleaved == Init /\ [][NextInterleaved]_vars

-----------------------------------------------------------------------------
(* The end-to-end scenarios: episodes of two controllers written to the
   BaseController interface, one that always returns STAY and one that
   returns the walkable move nearest to the exit *)

\* a controller whose select_action always returns Action.STAY
ConstructStay ==
    /\ ep.pc = "idle"
    /\ driver.eval.pc = "idle"
    /\ ctl.kind # "stay"
    /\ genome' = << >>
    /\ prev_positions' = << >>
    /\ ctl' = [kind |-> "stay"]
    /\ last' = [NoCall EXCEPT !.op = "construct_stay"]
    /\ UNCHANGED <<grid, start_pos, exit_pos, rng, agent, ep, runs, driver>>

\* a controller whose select_action returns a walkable move of least
\* Manhattan distance to the exit
ConstructGreedy ==
    /\ ep.pc = "idle"
    /\ driver.eval.pc = "idle"
    /\ ctl.kind # "greedy"
    /\ genome' = << >>
    /\ prev_positions' = << >>
    /\ ctl' = [kind |-> "greedy"]
    /\ last' = [NoCall EXCEPT !.op = "construct_greedy"]
    /\ UNCHANGED <<grid, start_pos, exit_pos, rng, agent, ep, runs, driver>>

\* the seed every attempt of generate_random_layout fails with, which leaves
\* the basic layout
ScenarioSeeds == {0}

NextScenario ==
    \/ ConstructStay
    \/ ConstructGreedy
    \/ \E seed \in ScenarioSeeds : EpisodeStart(seed)
    \/ EpisodeCycle

SpecScenario == Init /\ [][NextScenario]_vars

\* run_episode is a loop nothing interrupts: a turn that can be taken is taken
FairSpecScenario == SpecScenario /\ WF_vars(EpisodeCycle)

-----------------------------------------------------------------------------
(* A floor in play with the controller taking turns: the caller makes a floor,
   uses the agent's methods itself, and lets a DecisionTreeController choose
   the action of a step *)

MaxTurns == 2    \* turns the controller is given on one floor

\* the genomes of the controllers in play: one whose every entry is
\* MAGIC_BLAST, and one drawn at random
AllMagicBlast == [i \in 1..num_genes |-> 5]
PlayGenomes == {AllMagicBlast, random_genome(GenomeSeeds[1])}

\* the moves the caller makes itself
PlayMoves == {UP, DOWN, LEFT, RIGHT}

\* action = controller.select_action(agent, dungeon), then
\* agent.step(action, dungeon)
AITurn ==
    /\ ep.pc = "idle"
    /\ driver.eval.pc = "idle" /\ driver.ga.pc = "idle"
    /\ driver.floors >= 1
    /\ ctl.kind = "dt"
    /\ driver.turns < MaxTurns
    /\ \E sel \in {select_action(genome, prev_positions, agent, grid, exit_pos, rng)} :
       \E s \in {step(agent, grid, sel.action)} :
           /\ agent' = s.agent
           /\ grid' = s.grid
           /\ rng' = sel.rng
           /\ prev_positions' = sel.prev_positions
           /\ last' = [NoCall EXCEPT !.op = "turn", !.action = sel.action, !.idx = sel.idx,
                                     !.looked_up = sel.looked_up, !.stuck = sel.stuck,
                                     !.mana_before = agent.mana]
    /\ driver' = [driver EXCEPT !.turns = driver.turns + 1]
    /\ UNCHANGED <<start_pos, exit_pos, genome, ctl, ep, runs>>

NextPlay ==
    \/ \E seed \in MethodSeeds : MakeFloor(seed)
    \/ \E g \in PlayGenomes : ConstructDecisionTree(g)
    \/ \E action \in PlayMoves : MethodStep(action)
    \/ CallMagicBlast
    \/ AITurn

SpecPlay == Init /\ [][NextPlay]_vars

-----------------------------------------------------------------------------
(* The claims *)

\* the cells reached from the cells of S in at most n moves between cells that
\* share a side, no cell a WALL
RECURSIVE ReachWithin(_, _, _)
ReachWithin(g, S, n) ==
    IF S = {} \/ n = 0 THEN S
    ELSE ReachWithin(g, S \cup {c \in Cells : /\ g[c] # WALL
                                              /\ \E d \in S : manhattan(c, d) = 1},
                     n - 1)

PathExists(g, s, e) == e \in ReachWithin(g, {s}, NumCells)

\* C1: whenever generate_random_layout has returned, with a random attempt
\* accepted or with the fallback layout, the exit is reached from the start
\* by moves between side-sharing cells none of which is a WALL.
C1_PathAfterGeneration ==
    last.op = "generate" => PathExists(grid, start_pos, exit_pos)

\* a layout accepted after at least one attempt was rejected
C1_Witness ==
    /\ last.op = "generate"
    /\ last.accepted
    /\ last.attempts > 1
    /\ \E c \in Cells : grid[c] = WALL

\* C2: in every state (after construction, reset, generation and any steps)
\* the EXIT tile is on exit_pos and on no other cell, and neither the start
\* cell nor the exit cell is a WALL.
C2_OneExitNoWallAtEnds ==
    /\ {c \in Cells : grid[c] = EXIT} = {exit_pos}
    /\ grid[start_pos] # WALL
    /\ grid[exit_pos] # WALL

\* the agent has walked onto the exit of a generated floor
C2_Witness ==
    /\ last.op = "step"
    /\ pos(agent) = exit_pos
    /\ driver.floors >= 1
    /\ Cardinality({c \in Cells : grid[c] = WALL}) > 1

\* the monsters on the cell p and on the cells that share a side with it
MonstersNear(g, p) ==
    Cardinality({c \in Cells : /\ g[c] \in {MONSTER_MELEE, MONSTER_MAGIC}
                               /\ manhattan(c, p) <= 1})

\* C5: a step resolves the action, then picks up, then takes damage: the item
\* on the cell the agent is on after the move is picked up in the same step,
\* and the damage of the step is that of the monsters around the cell the
\* agent is on after the move, on the grid as the action left it (a monster
\* this step killed deals none).
C5_StepOrder ==
    [][last'.op = "step" =>
         LET p == pos(agent')
         IN  /\ agent'.damage_taken - agent.damage_taken = MonsterDamage * MonstersNear(grid', p)
             /\ agent.health - agent'.health <= MonsterDamage * MonstersNear(grid', p)
             /\ grid'[p] \notin {HEALTH_POTION, MANA_POTION, COIN}
             /\ grid[p] \in {HEALTH_POTION, MANA_POTION}
                    => agent'.potions_collected = agent.potions_collected + 1
             /\ grid[p] = COIN => agent'.coins_collected = agent.coins_collected + 1
             /\ MonstersNear(grid', pos(agent)) < MonstersNear(grid, pos(agent))
                    => /\ agent'.monsters_killed = agent.monsters_killed + 1
                       /\ p = pos(agent)]_vars

\* a potion was picked up on arrival, and a monster met on one step was killed
\* on the next, which cost no further damage
C5_Witness ==
    /\ last.op = "step"
    /\ agent.potions_collected = 1
    /\ agent.monsters_killed = 1
    /\ agent.damage_taken = MonsterDamage
    /\ MonstersNear(grid, pos(agent)) = 0

\* the cell a movement action aims at from the cell p
MoveTarget(p, action) ==
    CASE action = UP -> <<p[1], p[2] - 1>>
      [] action = DOWN -> <<p[1], p[2] + 1>>
      [] action = LEFT -> <<p[1] - 1, p[2]>>
      [] action = RIGHT -> <<p[1] + 1, p[2]>>
      [] OTHER -> p

\* C6: a movement action moves the agent to the cell it aims at when that
\* cell is in the grid and not a WALL, and leaves it in place otherwise; no
\* step moves it by more than one cell; the agent is always on a cell of the
\* grid that is not a WALL.
C6_MoveOnlyOntoWalkable ==
    /\ [](/\ pos(agent) \in Cells
          /\ grid[pos(agent)] # WALL)
    /\ [][/\ \A action \in {UP, DOWN, LEFT, RIGHT, STAY} :
               AgentStep(action) =>
                   LET target == MoveTarget(pos(agent), action)
                   IN  pos(agent') = IF target \in Cells /\ grid[target] # WALL
                                     THEN target ELSE pos(agent)
          /\ last'.op = "step" => manhattan(pos(agent), pos(agent')) <= 1
          /\ \A other \in {MELEE, MAGIC_BLAST, DRINK_HEALTH, DRINK_MANA} :
               AgentStep(other) => pos(agent') = pos(agent)]_vars

\* the agent has walked away from the start and stands beside a WALL and
\* beside the edge of the grid, so that a move from here can be refused
C6_Witness ==
    /\ last.op = "step"
    /\ manhattan(pos(agent), start_pos) >= 2
    /\ \E c \in Cells : grid[c] = WALL /\ manhattan(c, pos(agent)) = 1
    /\ agent.x \in {0, GRID_WIDTH - 1}

\* whether a tile of the set `tiles` is on the cell p or beside it
TileNear(g, p, tiles) == \E c \in Cells : g[c] \in tiles /\ manhattan(c, p) <= 1

\* 0, 1 or 2 as the coordinate `to` is below, at or above the coordinate `from`
Side(to, from) == IF to < from THEN 0 ELSE IF to = from THEN 1 ELSE 2

\* C8: in every state _state_index returns an index in 0..287 whose parts,
\* read back from it, are the five features: the last bit front_blocked, then
\* has_mana, then the potion flag, then the enemy type in 0..3, and above
\* them the exit sector in 0..8.
C8_StateIndexEncoding ==
    LET idx == _state_index(agent, grid, exit_pos)
        p == pos(agent)
    IN  /\ idx \in 0..287
        /\ idx % 2 = _front_blocked(agent, grid, exit_pos)
        /\ (idx \div 2) % 2 = (IF agent.mana > 0 THEN 1 ELSE 0)
        /\ (idx \div 4) % 2 = (IF TileNear(grid, p, {HEALTH_POTION, MANA_POTION}) THEN 1 ELSE 0)
        /\ (idx \div 8) % 4 = (IF TileNear(grid, p, {MONSTER_MELEE}) THEN 1 ELSE 0)
                                  + (IF TileNear(grid, p, {MONSTER_MAGIC}) THEN 2 ELSE 0)
        /\ idx \div 32 = 3 * Side(exit_pos[1], p[1]) + Side(exit_pos[2], p[2])
        /\ _front_blocked(agent, grid, exit_pos) \in 0..1

\* both kinds of monster are beside the agent and the index is among the
\* highest
C8_Witness ==
    /\ last.op = "step"
    /\ TileNear(grid, pos(agent), {MONSTER_MELEE})
    /\ TileNear(grid, pos(agent), {MONSTER_MAGIC})
    /\ _state_index(agent, grid, exit_pos) >= 280

\* the outcomes an episode ends with
Outcomes == {"death", "success", "timeout"}

\* C3: run_episode ends: an episode that runs comes to its end, after at most
\* 50 turns of its loop and with one of the outcomes death, success and
\* timeout; the step count it returns is in 1..50, it is the number of turns
\* taken, and it is 50 when the outcome is timeout.
C3_EpisodeEnds ==
    /\ [](/\ ep.step \in 0..50
          /\ ep.pc = "running" => ep.step < 50 /\ Len(ep.trace) = ep.step
          /\ \A i \in 1..Len(runs) :
                /\ runs[i].outcome \in Outcomes
                /\ runs[i].result[2] \in 1..50
                /\ Len(runs[i].trace) = runs[i].result[2]
                /\ runs[i].outcome = "timeout" => runs[i].result[2] = 50)
    /\ (ep.pc = "running" ~> ep.pc = "idle")

\* an episode has run through its 50 turns
C3_Witness ==
    /\ last.op = "cycle"
    /\ ep.pc = "idle"
    /\ ep.outcome = "timeout"
    /\ ep.step = 50

\* C4: after a turn of the loop the death test comes first: with health <= 0
\* the episode has ended as death with the success flag false, on the exit
\* cell too; it has ended as success exactly when the agent is on the exit
\* cell with health > 0; otherwise neither test has ended it (it runs on, or
\* the 50 turns are used up).
C4_DeathBeforeSuccess ==
    last.op = "cycle" =>
        /\ agent.health <= 0 =>
                ep.pc = "idle" /\ ep.outcome = "death" /\ ep.result[1] = FALSE
        /\ agent.health > 0 /\ pos(agent) = exit_pos =>
                ep.pc = "idle" /\ ep.outcome = "success" /\ ep.result[1] = TRUE
        /\ agent.health > 0 /\ pos(agent) # exit_pos =>
                \/ ep.pc = "running"
                \/ ep.pc = "idle" /\ ep.outcome = "timeout" /\ ep.step = 50
                                  /\ ep.result[1] = FALSE

\* the agent died on the exit cell
C4_Witness ==
    /\ last.op = "cycle"
    /\ agent.health <= 0
    /\ pos(agent) = exit_pos
    /\ ep.outcome = "death"

\* the entry select_action looks up for the agent a on the grid g
LookedUp(gn, a, g, e) == DT_ACTIONS[(gn[_state_index(a, g, e) + 1] % num_actions) + 1]

\* C7 as stated: select_action returns exactly the entry
\* ACTIONS[genome[state_index] mod N_ACTIONS] of the state the agent is in.
C7_ReturnsLookedUp ==
    [][last'.op = "cycle" /\ ctl.kind = "dt"
         => last'.action = LookedUp(genome, agent, grid, exit_pos)]_vars

\* whether a cell beside p, in the direction of a move other than `action`,
\* is in the grid and not a WALL
OtherWayOpen(g, p, action) ==
    \E other \in {UP, DOWN, LEFT, RIGHT} \ {action} :
        MoveTarget(p, other) \in Cells /\ g[MoveTarget(p, other)] # WALL

\* the entries select_action returns as they are
Kept(action, a, g, stuck) ==
    CASE action \in {UP, DOWN, LEFT, RIGHT} ->
             /\ MoveTarget(pos(a), action) \in Cells
             /\ g[MoveTarget(pos(a), action)] # WALL
             /\ ~(stuck /\ OtherWayOpen(g, pos(a), action))
      [] action = DRINK_HEALTH -> a.health_potions > 0 /\ a.health < max_health
      [] action = DRINK_MANA -> a.mana_potions > 0 /\ a.mana < max_mana
      [] action = MAGIC_BLAST -> a.mana > 0 /\ TileNear(g, pos(a), {MONSTER_MAGIC})
      [] action = MELEE -> TileNear(g, pos(a), {MONSTER_MELEE})
      [] OTHER -> FALSE

\* C7: select_action looks up ACTIONS[genome[state_index] mod N_ACTIONS] and
\* returns that entry as it is exactly when the entry is usable: a move onto
\* a cell in the grid that is not a WALL, unless the loop detector has fired
\* and another such move exists; DRINK_HEALTH with a potion held and health
\* below the maximum; DRINK_MANA with a potion held and mana below the
\* maximum; MAGIC_BLAST with mana left and a magic monster adjacent; MELEE
\* with a melee monster adjacent.  In every other case it returns another
\* action of the agent in its place.
C7_LookupThenSanitize ==
    [][last'.op = "cycle" /\ ctl.kind = "dt" =>
         /\ last'.idx = _state_index(agent, grid, exit_pos)
         /\ last'.looked_up = LookedUp(genome, agent, grid, exit_pos)
         /\ last'.stuck = _is_stuck_loop(prev_positions')
         /\ last'.action \in Action
         /\ (last'.action = last'.looked_up)
              <=> Kept(last'.looked_up, agent, grid, last'.stuck)]_vars

\* an entry outside 0..num_actions - 1 was looked up and returned as it is
C7_Witness ==
    /\ last.op = "cycle"
    /\ ctl.kind = "dt"
    /\ last.action = last.looked_up
    /\ genome[last.idx + 1] \notin 0..(num_actions - 1)

C10_EpisodeDeterministic ==
    \A i, j \in 1..Len(runs) :
        (/\ runs[i].kind = runs[j].kind
         /\ runs[i].genome = runs[j].genome
         /\ runs[i].seed = runs[j].seed
         /\ runs[i].seed # None)
            => /\ runs[i].trace = runs[j].trace
               /\ runs[i].result = runs[j].result

\* the same decision tree was run twice from the same seed, the second time
\* after an episode in which the agent had gone back and forth
C10_Witness ==
    /\ Len(runs) = 2
    /\ runs[1].kind = "dt"
    /\ runs[1].genome = runs[2].genome
    /\ runs[1].seed = runs[2].seed
    /\ runs[1].seed # None
    /\ runs[1].outcome = "timeout"
    /\ \E k \in 1..(Len(runs[1].trace) - 2) :
           /\ runs[1].trace[k].pos = runs[1].trace[k + 2].pos
           /\ runs[1].trace[k].pos # runs[1].trace[k + 1].pos

\* C11: two calls of generate_random_layout with the same seed (not None), each
\* on a new Dungeon, leave the same grid, start_pos and exit_pos: a call that
\* follows a call with the same seed leaves what that call left, although the
\* random source is in another state before it.
C11_LayoutDeterministic ==
    [][(/\ last.op = "generate"
        /\ last'.op = "generate"
        /\ last'.seed = last.seed
        /\ last'.seed # None)
          => /\ grid' = grid
             /\ start_pos' = start_pos
             /\ exit_pos' = exit_pos]_vars

\* a layout with random walls, accepted after a rejected attempt, was made a
\* second time from the same seed
C11_Witness ==
    /\ last.op = "generate"
    /\ last.repeat
    /\ last.seed # None
    /\ driver.floors = 2
    /\ last.attempts > 1
    /\ last.accepted

\* the number of cells of the grid g that hold a tile of the set `tiles`
CountTiles(g, tiles) == Cardinality({c \in Cells : g[c] \in tiles})

\* C12: when generate_random_layout has used up its attempts without finding
\* walls that leave the exit reachable, it returns as any other call does and
\* the grid is the basic layout: one WALL, in the centre, EXIT in the
\* bottom-right corner, every other cell EMPTY; nothing else is placed.
C12_FallbackIsBasicLayout ==
    (last.op = "generate" /\ ~last.accepted) =>
        /\ last.attempts > MaxAttempts
        /\ \A c \in Cells :
              grid[c] = IF c = <<GRID_WIDTH \div 2, GRID_HEIGHT \div 2>> THEN WALL
                        ELSE IF c = <<GRID_WIDTH - 1, GRID_HEIGHT - 1>> THEN EXIT
                        ELSE EMPTY
        /\ start_pos = <<0, 0>>
        /\ exit_pos = <<GRID_WIDTH - 1, GRID_HEIGHT - 1>>
        /\ last.num_monsters = 0 /\ last.num_potions = 0 /\ last.num_coins = 0
        /\ last.error = "none"

\* a call has fallen back, after 101 attempts
C12_Witness ==
    /\ last.op = "generate"
    /\ ~last.accepted
    /\ last.attempts = MaxAttempts + 1
    /\ CountTiles(grid, {WALL}) = 1

\* C13: after a call that accepted a wall layout, the WALL cells are those of
\* the accepted layout, the start cell is EMPTY, the exit is EXIT, and the
\* grid holds as many monsters, potions and coins as the call drew for each
\* (melee monsters and health potions being the 1st, 3rd, ... of their
\* kind): every one is on a cell of its own that was EMPTY in the accepted
\* layout and is neither the start nor the exit.
C13_PlacementOnEmptyCells ==
    (last.op = "generate" /\ last.accepted) =>
        /\ {c \in Cells : grid[c] = WALL} = last.walls
        /\ grid[start_pos] = EMPTY
        /\ grid[exit_pos] = EXIT
        /\ CountTiles(grid, {EXIT}) = 1
        /\ CountTiles(grid, {MONSTER_MELEE, MONSTER_MAGIC}) = last.num_monsters
        /\ CountTiles(grid, {MONSTER_MELEE}) = (last.num_monsters + 1) \div 2
        /\ CountTiles(grid, {HEALTH_POTION, MANA_POTION}) = last.num_potions
        /\ CountTiles(grid, {HEALTH_POTION}) = (last.num_potions + 1) \div 2
        /\ CountTiles(grid, {COIN}) = last.num_coins
        /\ last.num_monsters \in 1..max_monsters
        /\ last.num_potions \in 0..max_potions
        /\ last.num_coins \in 0..max_coins

\* a layout with the most monsters and potions there can be, and coins
C13_Witness ==
    /\ last.op = "generate"
    /\ last.accepted
    /\ last.num_monsters = max_monsters
    /\ last.num_potions = max_potions
    /\ last.num_coins >= 1
    /\ last.walls # {}

\* the cells the loops of melee_attack, magic_blast and apply_monster_damage
\* look at from the cell p, in the order of the loop, those out of bounds
\* left out
ScanOrder(p) ==
    SelectSeq(<< <<p[1] - 1, p[2]>>, <<p[1] + 1, p[2]>>, <<p[1], p[2] - 1>>,
                 <<p[1], p[2] + 1>>, p >>, LAMBDA c : c \in Cells)

\* the first cell of the scan from p that holds `tile` on g, as a set of one
\* cell, or the empty set when there is none
FirstInScan(g, p, tile) ==
    LET sc == ScanOrder(p)
        hits == {i \in 1..Len(sc) : g[sc[i]] = tile}
    IN  IF hits = {} THEN {} ELSE {sc[CHOOSE i \in hits : \A j \in hits : i <= j]}

\* the grid g with the cells of `target` cleared
Cleared(g, target) == [c \in Cells |-> IF c \in target THEN EMPTY ELSE g[c]]

\* C14: melee_attack clears the first MONSTER_MELEE tile of its scan (left,
\* right, up, down, own cell) and nothing else, so at most one tile; it adds
\* one kill exactly when it cleared a tile, never clears a MONSTER_MAGIC, and
\* leaves health, mana, the potion counts and every other field as they were
C14_MeleeAttack ==
    [][last'.op = "melee_attack" =>
          LET target == FirstInScan(grid, pos(agent), MONSTER_MELEE)
          IN  /\ grid' = Cleared(grid, target)
              /\ Cardinality({c \in Cells : grid'[c] # grid[c]}) <= 1
              /\ \A c \in Cells : grid[c] = MONSTER_MAGIC => grid'[c] = MONSTER_MAGIC
              /\ agent' = [agent EXCEPT !.monsters_killed =
                                            agent.monsters_killed + Cardinality(target)]
              /\ agent'.health = agent.health /\ agent'.mana = agent.mana
              /\ agent'.health_potions = agent.health_potions
              /\ agent'.mana_potions = agent.mana_potions]_vars

\* melee_attack, the first call on a floor, has killed the melee monster next
\* to the agent and left the magic monster next to it
C14_Witness ==
    /\ last.op = "melee_attack" /\ last.changed
    /\ agent.monsters_killed = 1
    /\ \E c \in Cells : grid[c] = MONSTER_MAGIC /\ manhattan(c, pos(agent)) <= 1

\* C15: magic_blast changes nothing when mana <= 0; with mana > 0 it spends
\* one mana whether or not a MONSTER_MAGIC is in range, clears the first
\* MONSTER_MAGIC of its scan and nothing else, adds as many kills as tiles
\* cleared, and never clears a MONSTER_MELEE
C15_MagicBlast ==
    [][last'.op = "magic_blast" =>
          IF agent.mana <= 0 THEN agent' = agent /\ grid' = grid
          ELSE LET target == FirstInScan(grid, pos(agent), MONSTER_MAGIC)
               IN  /\ grid' = Cleared(grid, target)
                   /\ Cardinality({c \in Cells : grid'[c] # grid[c]}) <= 1
                   /\ \A c \in Cells : grid[c] = MONSTER_MELEE => grid'[c] = MONSTER_MELEE
                   /\ agent' = [agent EXCEPT !.mana = agent.mana - 1,
                                             !.monsters_killed =
                                                 agent.monsters_killed + Cardinality(target)]]_vars

\* magic_blast has spent mana with no monster killed so far on the floor
C15_Witness ==
    /\ last.op = "magic_blast" /\ last.changed
    /\ agent.monsters_killed = 0 /\ agent.mana < max_mana

\* C16: drink_health_potion (drink_mana_potion) changes the agent exactly
\* when a potion of the kind is held and health (mana) is below its cap; then
\* one potion is consumed and health becomes min(max_health, health + 40)
\* (mana becomes max_mana); otherwise everything stays as it was
C16_DrinkPotions ==
    [][/\ last'.op = "drink_health_potion" =>
            /\ grid' = grid
            /\ IF agent.health_potions > 0 /\ agent.health < max_health
               THEN /\ agent' # agent
                    /\ agent' = [agent EXCEPT
                                    !.health_potions = agent.health_potions - 1,
                                    !.health = IF agent.health + 40 > max_health
                                               THEN max_health ELSE agent.health + 40]
               ELSE agent' = agent
       /\ last'.op = "drink_mana_potion" =>
            /\ grid' = grid
            /\ IF agent.mana_potions > 0 /\ agent.mana < max_mana
               THEN /\ agent' # agent
                    /\ agent' = [agent EXCEPT !.mana_potions = agent.mana_potions - 1,
                                              !.mana = max_mana]
               ELSE agent' = agent]_vars

\* drink_health_potion has brought a damaged agent back to full health, the
\* gain cut at the cap
C16_Witness ==
    /\ last.op = "drink_health_potion" /\ last.changed
    /\ agent.health = max_health /\ agent.damage_taken \in 10..30

\* C17: take_damage(amount) with amount > 0 lowers health by amount and
\* raises damage_taken by amount, health going to zero or below if it comes
\* to that; with amount <= 0 it leaves the agent as it was
C17_TakeDamage ==
    [][last'.op = "take_damage" =>
          /\ grid' = grid
          /\ IF last'.amount > 0
             THEN agent' = [agent EXCEPT !.health = agent.health - last'.amount,
                                         !.damage_taken = agent.damage_taken + last'.amount]
             ELSE agent' = agent]_vars

\* take_damage has taken health below zero
C17_Witness ==
    /\ last.op = "take_damage" /\ last.changed /\ last.amount > 0
    /\ agent.health < 0 /\ agent.damage_taken = max_health - agent.health

\* C18: apply_monster_damage passes to take_damage, once, 10 times the number
\* of monster tiles among the agent's cell and its in-bounds 4-neighbours,
\* leaves the grid as it was, and touches neither the position, the mana nor
\* the potion counts
C18_MonsterDamage ==
    [][last'.op = "apply_monster_damage" =>
          LET n == Cardinality({c \in Cells : /\ manhattan(c, pos(agent)) <= 1
                                              /\ grid[c] \in {MONSTER_MELEE, MONSTER_MAGIC}})
          IN  /\ grid' = grid
              /\ last'.amount = 10 * n
              /\ agent' = [agent EXCEPT !.health = agent.health - 10 * n,
                                        !.damage_taken = agent.damage_taken + 10 * n]
              /\ pos(agent') = pos(agent) /\ agent'.mana = agent.mana
              /\ agent'.health_potions = agent.health_potions
              /\ agent'.mana_potions = agent.mana_potions]_vars

\* apply_monster_damage has counted the monster the agent stands on and one
\* beside it
C18_Witness ==
    /\ last.op = "apply_monster_damage" /\ last.changed /\ last.amount = 2 * MonsterDamage
    /\ grid[pos(agent)] \in {MONSTER_MELEE, MONSTER_MAGIC}

\* C19: the summary run_episode returns has nine fields, the agent's
\* coins_collected counter the sixth of them, between the potions collected
\* and the initial distance
C19_SummaryHasCoins ==
    (last.op = "cycle" /\ ep.pc = "idle") =>
        /\ Len(ep.result) = 9
        /\ ep.result[6] = agent.coins_collected

\* C20: evaluate_controller runs episode i with seed i, for i from 0 to
\* num_episodes - 1, so two calls with the same controller and the same
\* num_episodes return the same score, whatever state the random source and
\* the controller's memory were in before each call
C20_EvaluateDeterministic ==
    /\ \A k \in 1..Len(driver.scores) :
           driver.scores[k].seeds = [i \in 1..driver.scores[k].n |-> i - 1]
    /\ \A j, k \in 1..Len(driver.scores) :
           (/\ driver.scores[j].kind = driver.scores[k].kind
            /\ driver.scores[j].genome = driver.scores[k].genome
            /\ driver.scores[j].n = driver.scores[k].n)
               => driver.scores[j].score = driver.scores[k].score

\* the same controller has been evaluated twice over two episodes, the
\* random source and the controller's memory not the same before the two calls
C20_Witness ==
    /\ Len(driver.scores) = 2
    /\ driver.scores[1].kind = driver.scores[2].kind
    /\ driver.scores[1].genome = driver.scores[2].genome
    /\ driver.scores[1].n = 2 /\ driver.scores[2].n = 2
    /\ driver.scores[1].rng_before # driver.scores[2].rng_before
    /\ driver.scores[1].memory_before # driver.scores[2].memory_before

\* the runs of the k-th finished evaluation: evaluations run their episodes
\* one after the other, so they are the next n entries of the log
RunsOf(k) ==
    LET RECURSIVE Before(_)
        Before(j) == IF j = 0 THEN 0 ELSE Before(j - 1) + driver.scores[j].n
    IN  [i \in 1..driver.scores[k].n |-> runs[Before(k - 1) + i]]

\* ten times the reward the claim gives for one run
ClaimedReward(run) ==
    LET steps == run.result[2]
        damage_taken == run.result[3]
        monsters_killed == run.result[4]
        potions_collected == run.result[5]
        progress == run.result[6] - run.result[8]
    IN  (IF run.outcome = "success" THEN 2000 - 20 * steps ELSE 0 - 300)
        + 80 * (IF progress > 0 THEN progress ELSE 0)
        + 100 * monsters_killed + 50 * potions_collected - 3 * damage_taken

RECURSIVE SumRewards(_, _)
SumRewards(rs, i) == IF i = 0 THEN 0 ELSE SumRewards(rs, i - 1) + ClaimedReward(rs[i])

Pop == driver.ga.population
Fit == driver.ga.fitnesses
NewPop == driver.ga.new_population
Heap == driver.ga.heap

\* the genome at index i of the population ranks before the one at index j:
\* a higher fitness, or the same fitness and a lower index
RanksBefore(i, j) == Fit[i] > Fit[j] \/ (Fit[i] = Fit[j] /\ i < j)

\* the number of elites the claim gives, max(1, int(0.1 * POP_SIZE))
ClaimedElites == IF POP_SIZE \div 10 > 1 THEN POP_SIZE \div 10 ELSE 1

\* C22: once the elites are copied, and for as long as the next population is
\* being built, its first max(1, int(ELITE_FRACTION*POP_SIZE)) entries are
\* gene-for-gene copies of as many genomes of the current population, which
\* are its highest in fitness, in descending order, ties going to the lower
\* index; crossover and mutation alter none of them
C22_ElitesCopied ==
    driver.ga.pc \in {"breed", "swap"} =>
        /\ Len(NewPop) >= ClaimedElites
        /\ \E e \in [1..ClaimedElites -> 1..POP_SIZE] :
               /\ \A k \in 1..ClaimedElites : Heap[NewPop[k]] = Heap[Pop[e[k]]]
               /\ \A k \in 1..(ClaimedElites - 1) : RanksBefore(e[k], e[k + 1])
               /\ \A j \in 1..POP_SIZE :
                      (\A k \in 1..ClaimedElites : e[k] # j) => RanksBefore(e[ClaimedElites], j)

\* the next population is complete, two elites at its head: two genomes of
\* different genes that share the highest fitness of the current population,
\* the one of lower index first
C22_Witness ==
    /\ driver.ga.pc = "swap" /\ ClaimedElites >= 2
    /\ \E i, j \in 1..POP_SIZE :
           /\ i < j /\ Fit[i] = Fit[j] /\ \A k \in 1..POP_SIZE : Fit[k] <= Fit[i]
           /\ Heap[Pop[i]] # Heap[Pop[j]]
           /\ Heap[NewPop[1]] = Heap[Pop[i]] /\ Heap[NewPop[2]] = Heap[Pop[j]]

\* the largest of the fitnesses of the current population
MaxFit == CHOOSE m \in {Fit[i] : i \in 1..Len(Fit)} : \A i \in 1..Len(Fit) : Fit[i] <= m

RECURSIVE MaxOfSeq(_, _)
MaxOfSeq(q, i) == IF i = 0 THEN NegInfinity ELSE Max(q[i], MaxOfSeq(q, i - 1))

\* C23: the all-time best of run_ga changes only when the generation's best
\* fitness is strictly greater (on a tie the genome found earlier stays), so
\* its fitness never decreases; it is then a copy of a genome evaluated to
\* that fitness, and the pair returned is the largest fitness of any
\* generation with the genome kept for it
C23_BestOverall ==
    /\ [][driver.ga.pc \notin {"idle", "done"} =>
             IF last'.op = "select"
             THEN IF MaxFit > driver.ga.best_overall_fitness
                  THEN /\ driver'.ga.best_overall_fitness = MaxFit
                       /\ \E i \in 1..POP_SIZE :
                              /\ Fit[i] = MaxFit
                              /\ driver'.ga.heap[driver'.ga.best_overall_genome] = Heap[Pop[i]]
                  ELSE /\ driver'.ga.best_overall_fitness = driver.ga.best_overall_fitness
                       /\ driver'.ga.best_overall_genome = driver.ga.best_overall_genome
                       /\ driver'.ga.heap[driver'.ga.best_overall_genome]
                              = Heap[driver.ga.best_overall_genome]
             ELSE /\ driver'.ga.best_overall_fitness = driver.ga.best_overall_fitness
                  /\ driver'.ga.best_overall_genome = driver.ga.best_overall_genome
                  /\ driver'.ga.heap[driver'.ga.best_overall_genome]
                         = Heap[driver.ga.best_overall_genome]]_vars
    /\ [](driver.ga.pc = "done" =>
             /\ Len(driver.ga.gen_bests) = NUM_GENERATIONS
             /\ driver.ga.result[2] = <<MaxOfSeq(driver.ga.gen_bests, NUM_GENERATIONS),
                                        EPISODES_PER_EVAL>>
             /\ driver.ga.result[1] = Heap[driver.ga.best_overall_genome])

\* a run has returned; its second generation's best tied with the first's,
\* and the genome kept was not the first of the initial population
C23_Witness ==
    /\ driver.ga.pc = "done"
    /\ driver.ga.gen_bests[2] = driver.ga.gen_bests[1]
    /\ driver.ga.result[2][1] = driver.ga.gen_bests[1]
    /\ driver.ga.best_overall_genome # POP_SIZE + 1

\* the lists run_ga holds: the population, the next population so far and the
\* all-time best
HeldLists ==
    {Pop[k] : k \in 1..Len(Pop)} \cup {NewPop[k] : k \in 1..Len(NewPop)}
        \cup {driver.ga.best_overall_genome}

\* C24: no list is shared across owners in run_ga: the population, the next
\* population, the all-time best and the controller under evaluation are all
\* different lists, the controller's genome a copy of the one it was made
\* from; and a turn of the breeding loop, which mutates its child in place,
\* changes no list held before it
C24_NoAliasing ==
    /\ [](driver.ga.pc \notin {"idle", "done"} =>
             /\ \A j, k \in 1..Len(Pop) : j # k => Pop[j] # Pop[k]
             /\ \A j, k \in 1..Len(NewPop) : j # k => NewPop[j] # NewPop[k]
             /\ \A j \in 1..Len(Pop) : \A k \in 1..Len(NewPop) : Pop[j] # NewPop[k]
             /\ \A j \in 1..Len(Pop) : Pop[j] # driver.ga.best_overall_genome
             /\ \A k \in 1..Len(NewPop) : NewPop[k] # driver.ga.best_overall_genome
             /\ driver.ga.controller # 0 =>
                    /\ driver.ga.controller \notin HeldLists
                    /\ Heap[driver.ga.controller] = Heap[Pop[driver.ga.i + 1]]
                    /\ genome = Heap[driver.ga.controller])
    /\ [][last'.op = "child" =>
             /\ driver'.ga.child \notin HeldLists
             /\ \A id \in HeldLists : driver'.ga.heap[id] = Heap[id]]_vars

\* a child has been bred and mutated: it differs from both its parents, which
\* are two lists of the population
C24_Witness ==
    /\ last.op = "child" /\ Len(driver.ga.parents) = 2
    /\ driver.ga.parents[1] # driver.ga.parents[2]
    /\ \E j, k \in 1..Len(Pop) : Pop[j] = driver.ga.parents[1] /\ Pop[k] = driver.ga.parents[2]
    /\ Heap[driver.ga.child] # Heap[driver.ga.parents[1]]
    /\ Heap[driver.ga.child] # Heap[driver.ga.parents[2]]
    /\ \E i \in 1..288 : /\ Heap[driver.ga.child][i] # Heap[driver.ga.parents[1]][i]
                         /\ Heap[driver.ga.child][i] # Heap[driver.ga.parents[2]][i]

\* the list `id` is a genome: 288 genes, each an index into the actions
IsGenome(id) ==
    /\ Len(Heap[id]) = 288
    /\ \A i \in 1..288 : Heap[id][i] \in 0..(num_actions - 1)

\* C25: at the start of every generation the population has POP_SIZE
\* genomes, each of 288 genes in [0, N_ACTIONS); every genome crossover and
\* mutation add to the next population is of that length and range too
C25_PopulationShape ==
    /\ (driver.ga.pc = "evaluate" /\ driver.ga.i = 0) =>
           /\ Len(Pop) = POP_SIZE
           /\ \A k \in 1..Len(Pop) : IsGenome(Pop[k])
    /\ driver.ga.pc \in {"breed", "swap"} => \A k \in 1..Len(NewPop) : IsGenome(NewPop[k])
    /\ driver.ga.pc = "swap" => Len(NewPop) = POP_SIZE

\* the second generation starts: its population holds children that
\* mutation has changed
C25_Witness ==
    /\ driver.ga.pc = "evaluate" /\ driver.ga.i = 0 /\ driver.ga.gen = 1
    /\ last.op = "generation"
    /\ \E k \in 1..POP_SIZE : \E i \in 1..288 : Heap[Pop[k]][i] = num_actions - 1

\* C26: during a run_ga run the random source is seeded once, by run_ga
\* itself: no episode started for a fitness evaluation seeds it again
C26_SeededOnce ==
    [][driver.ga.pc \notin {"idle", "done"} =>
          ~(last'.op = "start" /\ last'.seed # None)]_vars

\* C27: two episodes of the same genome and the same seed return the same
\* summary, whether or not the steps of another episode, with a Dungeon, an
\* Agent and a controller of its own, were taken between their turns
C27_SummaryUnderInterleaving ==
    \A i, j \in 1..Len(runs) :
        (/\ runs[i].kind = "dt" /\ runs[j].kind = "dt"
         /\ runs[i].genome = runs[j].genome
         /\ runs[i].seed # None /\ runs[i].seed = runs[j].seed)
            => runs[i].result = runs[j].result

\* the episode in progress is on the canonical minimal layout
OnBasicLayout == ep.pc = "running" /\ grid = _create_basic_layout

\* C28: on the canonical minimal layout an episode of the controller that
\* always returns STAY changes neither the agent's position nor the grid at
\* any turn, does not end before its 50th turn, and ends there by timeout
\* with steps = 50 and no damage, kill or potion
C28_StayTimesOut ==
    /\ [][(ctl.kind = "stay" /\ OnBasicLayout /\ last'.op = "cycle") =>
             /\ grid' = grid
             /\ pos(agent') = pos(agent) /\ pos(agent') = BasicStart
             /\ ~at_exit(agent', exit_pos)
             /\ ep'.pc = "idle" <=> ep'.step = 50
             /\ ep'.pc = "idle" =>
                    /\ ep'.outcome = "timeout"
                    /\ ep'.result = <<FALSE, 50, 0, 0, 0, 8, 8, 8>>]_vars
    /\ ((ctl.kind = "stay" /\ OnBasicLayout)
            ~> (ep.pc = "idle" /\ ep.outcome = "timeout" /\ ep.step = 50))

\* an episode of the staying controller has ended on the basic layout
C28_Witness ==
    /\ ctl.kind = "stay" /\ last.op = "cycle" /\ last.action = STAY
    /\ ep.pc = "idle" /\ ep.step = 50
    /\ grid = _create_basic_layout /\ pos(agent) = BasicStart

\* C29: on the canonical minimal layout every turn of an episode of the
\* greedy controller, whichever of its equally good moves it takes, brings
\* the agent one cell nearer to the exit, so the episode ends at the exit
\* after exactly 8 turns
C29_GreedyReachesExit ==
    /\ [][(ctl.kind = "greedy" /\ OnBasicLayout /\ last'.op = "cycle") =>
             /\ grid' = grid
             /\ manhattan(pos(agent), exit_pos) = 8 - ep.step
             /\ manhattan(pos(agent'), exit_pos) = manhattan(pos(agent), exit_pos) - 1
             /\ ep'.pc = "idle" <=> ep'.step = 8
             /\ ep'.pc = "idle" =>
                    /\ ep'.outcome = "success"
                    /\ ep'.result = <<TRUE, 8, 0, 0, 0, 8, 0, 0>>]_vars
    /\ ((ctl.kind = "greedy" /\ OnBasicLayout)
            ~> (ep.pc = "idle" /\ ep.outcome = "success" /\ ep.step = 8))

\* an episode of the greedy controller has ended at the exit of the basic
\* layout after passing the cell above the wall, where the move down is
\* blocked
C29_Witness ==
    /\ ctl.kind = "greedy" /\ last.op = "cycle"
    /\ ep.pc = "idle" /\ at_exit(agent, exit_pos)
    /\ grid = _create_basic_layout
    /\ grid[<<2, 2>>] = WALL
    /\ \E k \in 1..Len(runs[Len(runs)].trace) : runs[Len(runs)].trace[k].pos = <<2, 1>>

\* C30: a turn of the controller whose genome entry for the state is
\* MAGIC_BLAST, taken with no mana left, does not lower the mana, adds no
\* kill and leaves every monster tile in place
C30_NoManaNoBlast ==
    [][(last'.op = "turn" /\ last'.looked_up = MAGIC_BLAST /\ agent.mana = 0) =>
          /\ agent'.mana >= agent.mana
          /\ agent'.monsters_killed = agent.monsters_killed
          /\ \A c \in Cells :
                 grid[c] \in {MONSTER_MELEE, MONSTER_MAGIC} => grid'[c] = grid[c]]_vars

\* such a turn has been taken from a cell with a monster on it or next to
\* it, and the mana is still 0
C30_Witness ==
    /\ last.op = "turn" /\ last.looked_up = MAGIC_BLAST /\ last.mana_before = 0
    /\ agent.mana = 0
    /\ Len(prev_positions) >= 1
    /\ ScanHits(grid, prev_positions[Len(prev_positions)][1],
                prev_positions[Len(prev_positions)][2],
                {MONSTER_MELEE, MONSTER_MAGIC}) # {}

\* C32: a call of generate_random_layout makes at most 100 attempts at a
\* wall layout: with the cap reached it falls back rather than try again
C32_AtMostCapAttempts ==
    last.op = "generate" => last.attempts <= MaxAttempts

\* C33: from a new Agent on, whatever steps are made, the health is at most
\* 100, the mana is between 0 and 3 and neither count of potions held is
\* negative; a new Agent has health 100 and mana 3
C33_AgentBounds ==
    /\ agent.health <= 100
    /\ agent.mana >= 0 /\ agent.mana <= 3
    /\ agent.health_potions >= 0 /\ agent.mana_potions >= 0
    /\ last.op \in {"init", "generate"} => agent.health = 100 /\ agent.mana = 3

\* steps have been made in which the agent was hurt, drank a health potion
\* that took it back to full health, and spent mana
C33_Witness ==
    /\ last.op = "step"
    /\ agent.damage_taken > 0 /\ agent.health = max_health
    /\ agent.potions_collected > 0 /\ agent.health_potions = 0
    /\ agent.mana < max_mana

\* C34: with a genome of 288 integers of any size and sign, every turn of
\* select_action looks up an entry of the action table, the one at the
\* gene's value modulo 8, and returns an Action
C34_LookupInRange ==
    (last.op = "cycle" /\ ctl.kind = "dt") =>
        /\ Len(genome) = 288
        /\ \E k \in 0..7 : /\ (genome[last.idx + 1] - k) % 8 = 0
                           /\ last.looked_up = DT_ACTIONS[k + 1]
        /\ last.looked_up \in Action
        /\ last.action \in Action

\* a turn has looked up a gene above the action table's last index, in a
\* genome that has genes below 0 too
C34_Witness ==
    /\ last.op = "cycle" /\ ctl.kind = "dt"
    /\ genome[last.idx + 1] >= num_actions
    /\ \E i \in 1..Len(genome) : genome[i] < 0
    /\ last.looked_up \in Action

\* the Manhattan distances to the exit of the start and of the positions
\* after each step of a finished episode
DistancesOf(run) ==
    {manhattan(BasicStart, BasicExit)}
        \cup {manhattan(run.trace[k].pos, BasicExit) : k \in 1..Len(run.trace)}

\* the best distance of a finished episode is the least of its distances, and
\* is no more than the initial and the final distance reported
BestIsMinimum(run) ==
    /\ \A d \in DistancesOf(run) : run.result[8] <= d
    /\ run.result[8] \in DistancesOf(run)
    /\ run.result[6] = manhattan(BasicStart, BasicExit)
    /\ run.result[7] = manhattan(run.trace[Len(run.trace)].pos, BasicExit)
    /\ run.result[8] <= run.result[6] /\ run.result[8] <= run.result[7]

\* C35 as stated: the best distance is the least distance over the start and
\* the positions after each step, and the final and best distances are both 0
\* exactly when the episode succeeded
C35_ZeroOnlyOnSuccess ==
    \A i \in 1..Len(runs) :
        /\ BestIsMinimum(runs[i])
        /\ (runs[i].result[7] = 0 /\ runs[i].result[8] = 0) <=> runs[i].result[1] = TRUE

\* C35: the best distance run_episode reports is the least Manhattan distance
\* to the exit over the start and the position after every step, so it is no
\* more than the initial and the final distance; the final and best distances
\* are both 0 exactly when the episode ended on the exit cell, as a success or
\* as the death of an agent that had reached it
C35_BestDistance ==
    \A i \in 1..Len(runs) :
        /\ BestIsMinimum(runs[i])
        /\ runs[i].result[1] = TRUE => runs[i].result[7] = 0 /\ runs[i].result[8] = 0
        /\ (runs[i].result[7] = 0 /\ runs[i].result[8] = 0)
              <=> (\/ runs[i].result[1] = TRUE
                   \/ /\ runs[i].outcome = "death"
                      /\ runs[i].trace[Len(runs[i].trace)].pos = BasicExit)

\* an episode has ended with the agent dead on the exit cell, and another
\* with the agent further from the exit than it had been
C35_Witness ==
    \E i, j \in 1..Len(runs) :
        /\ runs[i].outcome = "death" /\ runs[i].result[7] = 0 /\ runs[i].result[8] = 0
        /\ runs[i].result[1] = FALSE
        /\ runs[j].result[8] < runs[j].result[7] /\ runs[j].result[8] < runs[j].result[6]

\* C36: an accepted random layout holds 1 to 3 monsters, 0 to 2 potions and
\* 0 to 3 coins, the melee-weak monsters as many as the magic-weak ones or one
\* more, the health potions as many as the mana potions or one more
C36_PlacedCounts ==
    (last.op = "generate" /\ last.accepted) =>
        /\ CountTiles(grid, {MONSTER_MELEE, MONSTER_MAGIC}) \in 1..3
        /\ CountTiles(grid, {HEALTH_POTION, MANA_POTION}) \in 0..2
        /\ CountTiles(grid, {COIN}) \in 0..3
        /\ CountTiles(grid, {MONSTER_MELEE}) - CountTiles(grid, {MONSTER_MAGIC}) \in {0, 1}
        /\ CountTiles(grid, {HEALTH_POTION}) - CountTiles(grid, {MANA_POTION}) \in {0, 1}

\* a layout has been accepted with three monsters, two potions and three
\* coins
C36_Witness ==
    /\ last.op = "generate" /\ last.accepted
    /\ CountTiles(grid, {MONSTER_MELEE}) = 2 /\ CountTiles(grid, {MONSTER_MAGIC}) = 1
    /\ CountTiles(grid, {HEALTH_POTION}) = 1 /\ CountTiles(grid, {MANA_POTION}) = 1
    /\ CountTiles(grid, {COIN}) = 3

\* the tiles of the monsters and the tiles of the potions
MonsterTiles == {MONSTER_MELEE, MONSTER_MAGIC}
PotionTiles == {HEALTH_POTION, MANA_POTION}

\* C37: an episode starts with no kill and nothing collected, and every turn
\* of it keeps the monsters killed plus the monster tiles, the potions
\* collected plus the potion tiles and the coins collected plus the coin
\* tiles as they were, so each sum stays the count the layout started with;
\* the potions held are never more than the potions collected; and a turn
\* leaves every WALL and EXIT tile alone and changes a cell to EMPTY only
C37_EntitiesConserved ==
    /\ [][last'.op = "start" =>
             /\ agent'.monsters_killed = 0 /\ agent'.potions_collected = 0
             /\ agent'.coins_collected = 0
             /\ agent'.health_potions = 0 /\ agent'.mana_potions = 0]_vars
    /\ [][last'.op = "cycle" =>
             /\ agent'.monsters_killed + CountTiles(grid', MonsterTiles)
                    = agent.monsters_killed + CountTiles(grid, MonsterTiles)
             /\ agent'.potions_collected + CountTiles(grid', PotionTiles)
                    = agent.potions_collected + CountTiles(grid, PotionTiles)
             /\ agent'.coins_collected + CountTiles(grid', {COIN})
                    = agent.coins_collected + CountTiles(grid, {COIN})
             /\ agent'.health_potions + agent'.mana_potions <= agent'.potions_collected
             /\ \A c \in Cells :
                    /\ grid[c] \in {WALL, EXIT} => grid'[c] = grid[c]
                    /\ grid'[c] # grid[c] => grid'[c] = EMPTY]_vars

\* an episode is under way in which a monster was killed and a coin was
\* collected, with monsters left on the grid
C37_Witness ==
    /\ last.op = "cycle"
    /\ agent.monsters_killed > 0
    /\ agent.coins_collected > 0
    /\ CountTiles(grid, MonsterTiles) > 0

\* the genome entries select_action can read in an episode: those of the exit
\* sectors 5, 7 and 8, 32 entries each
ReadableEntries == (160..191) \cup (224..287)

\* C40: while an episode runs the agent is not on the exit, so whenever
\* select_action is called the exit sector is 5, 7 or 8 and the state index
\* is within 160..191 or 224..287; the index a turn has read is one of those
\* 96 of the 288 entries
C40_ReadableEntries ==
    /\ Cardinality(ReadableEntries) = 96
    /\ ep.pc = "running" =>
           /\ pos(agent) # exit_pos
           /\ _exit_sector(agent, exit_pos) \in {5, 7, 8}
           /\ _state_index(agent, grid, exit_pos) \in ReadableEntries
    /\ (last.op = "cycle" /\ ctl.kind = "dt") =>
           /\ last.idx \div 32 \in {5, 7, 8}
           /\ last.idx \in ReadableEntries

\* a turn of a decision-tree episode has read an entry of exit sector 5, the
\* agent in the exit's column, and the episode goes on
C40_Witness ==
    /\ last.op = "cycle" /\ ctl.kind = "dt"
    /\ last.idx \in 160..191
    /\ ep.pc = "running"

\* C39: every action select_action returns in an episode takes effect: a
\* move aims at a walkable cell and the agent goes there; MAGIC_BLAST comes
\* with mana left and a magic-weak monster on the agent's cell or beside it,
\* and spends one mana for one kill; MELEE comes with a melee-weak monster
\* in range and kills; DRINK_HEALTH and DRINK_MANA come with a potion of the
\* kind held and the resource below its maximum, and use the potion up, the
\* mana potion for more mana; STAY comes only with no walkable cell beside
\* the agent; so a turn that leaves the agent with less mana has killed a
\* monster
C39_ActionsTakeEffect ==
    [][last'.op = "cycle" /\ ctl.kind = "dt" =>
         LET act == last'.action
             target == MoveTarget(pos(agent), act)
         IN  /\ act \in Action
             /\ act \in MoveSet =>
                    /\ is_walkable(grid, target[1], target[2])
                    /\ pos(agent') = target
             /\ act = MAGIC_BLAST =>
                    /\ agent.mana > 0
                    /\ TileNear(grid, pos(agent), {MONSTER_MAGIC})
                    /\ agent'.mana = agent.mana - 1
                    /\ agent'.monsters_killed = agent.monsters_killed + 1
             /\ act = MELEE =>
                    /\ TileNear(grid, pos(agent), {MONSTER_MELEE})
                    /\ agent'.monsters_killed = agent.monsters_killed + 1
             /\ act = DRINK_HEALTH =>
                    /\ agent.health_potions > 0 /\ agent.health < max_health
                    /\ agent'.health_potions = agent.health_potions - 1
             /\ act = DRINK_MANA =>
                    /\ agent.mana_potions > 0 /\ agent.mana < max_mana
                    /\ agent'.mana_potions = agent.mana_potions - 1
                    /\ agent'.mana > agent.mana
             /\ act = STAY =>
                    \A move \in MoveSet : ~MoveWalkable(agent, grid, move)
             /\ agent'.mana < agent.mana =>
                    agent'.monsters_killed = agent.monsters_killed + 1]_vars

\* a turn has returned MAGIC_BLAST in place of the entry looked up, and the
\* agent has a kill and less than the full mana
C39_Witness ==
    /\ last.op = "cycle" /\ ctl.kind = "dt"
    /\ last.action = MAGIC_BLAST /\ last.looked_up # MAGIC_BLAST
    /\ agent.mana < max_mana
    /\ agent.monsters_killed > 0

\* the best fitnesses of the generations selected so far, the first first
GenBests == driver.ga.gen_bests

\* C38: the elite copied into slot 0 is evaluated again to the fitness that
\* made it the best of its generation, so no generation's best fitness is
\* lower than that of the generation before, and the fitness run_ga returns
\* as the all-time best is the best fitness of the final generation
C38_BestNeverDrops ==
    /\ \A g \in 1..(Len(GenBests) - 1) : GenBests[g + 1] >= GenBests[g]
    /\ (driver.ga.pc \in {"evaluate", "select"} /\ driver.ga.gen >= 1 /\ Len(Fit) >= 1) =>
           Fit[1] = GenBests[driver.ga.gen]
    /\ driver.ga.pc = "done" =>
           /\ Len(GenBests) = NUM_GENERATIONS
           /\ driver.ga.result[2][1] = GenBests[NUM_GENERATIONS]

\* a run has returned whose final generation's best fitness is higher than
\* that of the generation before
C38_Witness ==
    /\ driver.ga.pc = "done"
    /\ GenBests[NUM_GENERATIONS] > GenBests[NUM_GENERATIONS - 1]
    /\ driver.ga.result[2][1] = GenBests[NUM_GENERATIONS]

\* the genome at index 0 of the population a run started with
FirstGenome == InitialPopulation(driver.ga.pop_size, random_seed(driver.ga.seed)).heap[1]

\* C31: run_ga with a population of 4, an elite fraction of 0.25, one
\* generation and one fitness for every genome goes through to its return:
\* the fitness list it selects from has 4 entries, the selection keeps
\* exactly one elite, a copy of the genome at population index 0, which
\* stays as it is in slot 0 of the new population while the children are
\* made, and the run returns that genome with the fitness of every genome
C31_OneEliteOnTies ==
    /\ [](driver.ga.pc = "select" =>
             /\ Len(Pop) = 4 /\ Len(Fit) = 4
             /\ \A k \in 1..4 : Fit[k] = driver.ga.stub_fitness
             /\ Heap[Pop[1]] = FirstGenome)
    /\ [][last'.op = "select" =>
             /\ Len(driver'.ga.new_population) = 1
             /\ driver'.ga.new_population[1] \notin {Pop[k] : k \in 1..4}
             /\ driver'.ga.heap[driver'.ga.new_population[1]] = Heap[Pop[1]]
             /\ driver'.ga.heap[driver'.ga.best_overall_genome] = Heap[Pop[1]]
             /\ driver'.ga.best_overall_fitness = driver.ga.stub_fitness]_vars
    /\ [](driver.ga.pc \in {"breed", "swap"} =>
             /\ Len(NewPop) \in 1..4
             /\ Heap[NewPop[1]] = FirstGenome)
    /\ [](driver.ga.pc = "done" =>
             /\ Len(Pop) = 4
             /\ Heap[Pop[1]] = FirstGenome
             /\ IsGenome(Pop[1])
             /\ driver.ga.result[1] = FirstGenome
             /\ driver.ga.result[2][1] = driver.ga.stub_fitness)
    /\ (driver.ga.pc = "evaluate" ~> driver.ga.pc = "done")

\* a run has returned the genome of index 0, which is in slot 0 of the next
\* population beside a child that differs from it; the genome the run
\* started with at index 3 was another one
C31_Witness ==
    /\ driver.ga.pc = "done"
    /\ driver.ga.result[1] = Heap[Pop[1]]
    /\ \E k \in 2..4 : Heap[Pop[k]] # Heap[Pop[1]]
    /\ InitialPopulation(4, random_seed(driver.ga.seed)).heap[4] # FirstGenome
    /\ driver.ga.stub_fitness # 0

====
